---- MODULE Spec2Model ----
(***************************************************************************)
(* Model of the Cielo EDI parser (src/src/cielo_edi/parser.py) and of the  *)
(* record models it builds (src/src/cielo_edi/models.py).                  *)
(*                                                                         *)
(* A text is a sequence of one-character strings.  A Python None is the    *)
(* empty tuple and a present optional value v is the tuple <<v>>.  A call  *)
(* that may raise returns [ok |-> TRUE, val |-> v] or                      *)
(* [ok |-> FALSE, val |-> e], e the exception.  A Python int is kept as    *)
(* sign and decimal digits (unbounded, as in Python); a Decimal is kept    *)
(* as sign, coefficient digits and exponent, as decimal.Decimal keeps it.  *)
(***************************************************************************)
EXTENDS Integers, Sequences, FiniteSets, TLC

LF == "\n"
CR == "\r"
TAB == "\t"

None == <<>>
Some(v) == <<v>>

Return(v) == [ok |-> TRUE, val |-> v]
Raise(e) == [ok |-> FALSE, val |-> e]

Rep(c, n) == [i \in 1..n |-> c]
Min(a, b) == IF a < b THEN a ELSE b
Max(a, b) == IF a > b THEN a ELSE b
Front(s) == SubSeq(s, 1, Len(s) - 1)
Last(s) == s[Len(s)]

(***************************************************************************)
(* Characters.  str.strip() removes whitespace; the whitespace characters  *)
(* of the model's alphabet are the space, the tab, CR and LF.              *)
(***************************************************************************)
Whitespace == {" ", TAB, CR, LF}
DigitChars == <<"0", "1", "2", "3", "4", "5", "6", "7", "8", "9">>
IsDigit(c) == \E i \in 1..10 : DigitChars[i] = c
DigitVal(c) == (CHOOSE i \in 1..10 : DigitChars[i] = c) - 1
AllDigits(s) == \A i \in 1..Len(s) : IsDigit(s[i])

\* str.lstrip / str.rstrip over a set of characters, and str.strip().
RECURSIVE lstrip(_, _)
lstrip(s, cs) == IF s # <<>> /\ Head(s) \in cs THEN lstrip(Tail(s), cs) ELSE s
RECURSIVE rstrip(_, _)
rstrip(s, cs) == IF s # <<>> /\ Last(s) \in cs THEN rstrip(Front(s), cs) ELSE s
strip(s) == rstrip(lstrip(s, Whitespace), Whitespace)

\* Python's slice s[a:b] for 0 <= a, 0 <= b: clipped to the text, never an error.
Slice(s, a, b) == SubSeq(s, a + 1, Min(b, Len(s)))

(***************************************************************************)
(* Digit-sequence arithmetic (most significant digit first).               *)
(***************************************************************************)
AllZero(ds) == \A i \in 1..Len(ds) : ds[i] = 0
RECURSIVE StripZeros(_)
StripZeros(ds) ==
    IF Len(ds) > 1 /\ Head(ds) = 0 THEN StripZeros(Tail(ds))
    ELSE IF ds = <<>> THEN <<0>> ELSE ds
RECURSIVE TrailingZeros(_)
TrailingZeros(ds) ==
    IF ds # <<>> /\ Last(ds) = 0 THEN 1 + TrailingZeros(Front(ds)) ELSE 0
RECURSIVE SomaMag(_, _, _)
SomaMag(a, b, vaium) ==
    IF a = <<>> /\ b = <<>> THEN (IF vaium = 0 THEN <<>> ELSE <<vaium>>)
    ELSE LET da == IF a = <<>> THEN 0 ELSE Last(a)
             db == IF b = <<>> THEN 0 ELSE Last(b)
             s == da + db + vaium
         IN Append(SomaMag(IF a = <<>> THEN a ELSE Front(a),
                           IF b = <<>> THEN b ELSE Front(b), s \div 10), s % 10)
\* a - b for a >= b.
RECURSIVE SubMag(_, _, _)
SubMag(a, b, empresta) ==
    IF a = <<>> THEN <<>>
    ELSE LET db == IF b = <<>> THEN 0 ELSE Last(b)
             d == Last(a) - db - empresta
         IN Append(SubMag(Front(a), IF b = <<>> THEN b ELSE Front(b),
                          IF d < 0 THEN 1 ELSE 0),
                   IF d < 0 THEN d + 10 ELSE d)
RECURSIVE LexLess(_, _)
LexLess(a, b) ==
    /\ a # <<>>
    /\ \/ Head(a) < Head(b)
       \/ Head(a) = Head(b) /\ LexLess(Tail(a), Tail(b))
MagLess(a, b) ==
    LET x == StripZeros(a)
        y == StripZeros(b)
    IN Len(x) < Len(y) \/ (Len(x) = Len(y) /\ LexLess(x, y))
RECURSIVE DigitsOf(_)
DigitsOf(s) == IF s = <<>> THEN <<>> ELSE <<DigitVal(Head(s))>> \o DigitsOf(Tail(s))
RECURSIVE NatOf(_)
NatOf(ds) == IF ds = <<>> THEN 0 ELSE 10 * NatOf(Front(ds)) + Last(ds)

(***************************************************************************)
(* Python's int(text): surrounding whitespace, one optional sign, decimal  *)
(* digits; anything else raises ValueError.  (The alphabet of the model    *)
(* has no underscore.)                                                     *)
(***************************************************************************)
\* the digits after the optional sign
int_digitos(s, negativo, corpo) ==
    IF corpo # <<>> /\ AllDigits(corpo)
    THEN Return([sinal |-> IF negativo /\ ~AllZero(DigitsOf(corpo)) THEN 1 ELSE 0,
                 int |-> StripZeros(DigitsOf(corpo))])
    ELSE Raise([exc |-> "ValueError", det |-> s])
\* the text t without surrounding whitespace
int_sinal(s, t) ==
    IF t # <<>> /\ Head(t) \in {"+", "-"} THEN int_digitos(s, Head(t) = "-", Tail(t))
    ELSE int_digitos(s, FALSE, t)
int(s) == int_sinal(s, strip(s))
IntZero == [sinal |-> 0, int |-> <<0>>]
RECURSIVE NatDigits(_)
NatDigits(k) == IF k < 10 THEN <<k>> ELSE Append(NatDigits(k \div 10), k % 10)
\* n >= k and n <= k for a natural k
IntGe(n, k) == n.sinal = 0 /\ ~MagLess(n.int, NatDigits(k))
IntLe(n, k) == n.sinal = 1 \/ ~MagLess(NatDigits(k), n.int)
\* small values only (date and time components)
IntSmall(n) == IF n.sinal = 1 THEN 0 - NatOf(n.int) ELSE NatOf(n.int)

(***************************************************************************)
(* decimal.Decimal under the default context: precision 28, rounding       *)
(* ROUND_HALF_EVEN.                                                        *)
(***************************************************************************)
PREC == 28

\* Decimal(text): the alphabet of the model has no ".", exponent marker,
\* underscore or letter of "NaN"/"Infinity", so the numeric texts are the
\* optionally signed digit strings; every other text raises InvalidOperation.
Decimal_digitos(s, negativo, corpo) ==
    IF corpo # <<>> /\ AllDigits(corpo)
    THEN Return([sinal |-> IF negativo THEN 1 ELSE 0,
                 int |-> StripZeros(DigitsOf(corpo)), exp |-> 0])
    ELSE Raise([exc |-> "InvalidOperation", det |-> s])
Decimal_sinal(s, t) ==
    IF t # <<>> /\ Head(t) \in {"+", "-"} THEN Decimal_digitos(s, Head(t) = "-", Tail(t))
    ELSE Decimal_digitos(s, FALSE, t)
DecimalOf(s) == Decimal_sinal(s, strip(s))
DecZero == [sinal |-> 0, int |-> <<0>>, exp |-> 0]
DecIsZero(d) == AllZero(d.int)

\* Decimal._fix: round the coefficient to PREC digits, half to even.
Fix(d) ==
    IF Len(d.int) <= PREC THEN d
    ELSE LET kept == SubSeq(d.int, 1, PREC)
             rest == SubSeq(d.int, PREC + 1, Len(d.int))
             up == \/ rest[1] > 5
                   \/ rest[1] = 5 /\ ~AllZero(Tail(rest))
                   \/ rest[1] = 5 /\ AllZero(Tail(rest)) /\ kept[PREC] % 2 = 1
             inc == IF up THEN SomaMag(kept, <<1>>, 0) ELSE kept
         IN IF Len(inc) > PREC
            THEN [sinal |-> d.sinal, int |-> Front(inc), exp |-> d.exp + Len(rest) + 1]
            ELSE [sinal |-> d.sinal, int |-> inc, exp |-> d.exp + Len(rest)]

\* x / Decimal(10 ** casas): the quotient by a power of ten, with the exponent
\* as close to the ideal one (x.exp) as the exact value allows, then rounded
\* to the context precision.
DivPow10(x, casas) ==
    IF DecIsZero(x) THEN [sinal |-> x.sinal, int |-> <<0>>, exp |-> x.exp]
    ELSE LET k == Min(casas, TrailingZeros(x.int))
         IN Fix([sinal |-> x.sinal,
                 int |-> SubSeq(x.int, 1, Len(x.int) - k),
                 exp |-> x.exp - casas + k])

\* The value of a Decimal, whatever its representation: no trailing zeros in
\* the coefficient, and one zero.
Normalize(d) ==
    IF DecIsZero(d) THEN DecZero
    ELSE LET k == TrailingZeros(d.int)
         IN [sinal |-> d.sinal, int |-> StripZeros(SubSeq(d.int, 1, Len(d.int) - k)),
             exp |-> d.exp + k]
\* Decimal.__eq__
DecEq(a, b) == Normalize(a) = Normalize(b)

\* the exact sum of two Decimals
DecAddExato(a, b) ==
    LET e == Min(a.exp, b.exp)
        ca == StripZeros(a.int \o Rep(0, a.exp - e))
        cb == StripZeros(b.int \o Rep(0, b.exp - e))
    IN IF a.sinal = b.sinal
       THEN [sinal |-> a.sinal, int |-> StripZeros(SomaMag(ca, cb, 0)), exp |-> e]
       ELSE IF MagLess(ca, cb)
            THEN [sinal |-> b.sinal, int |-> StripZeros(SubMag(cb, ca, 0)), exp |-> e]
            ELSE IF MagLess(cb, ca)
                 THEN [sinal |-> a.sinal, int |-> StripZeros(SubMag(ca, cb, 0)), exp |-> e]
                 ELSE [sinal |-> 0, int |-> <<0>>, exp |-> e]
\* Decimal.__add__: the sum, rounded to the context precision
DecAdd(a, b) == Fix(DecAddExato(a, b))
\* a < b as values
DecLess(a, b) ==
    LET d == Normalize(DecAdd(a, [b EXCEPT !.sinal = 1 - b.sinal]))
    IN d.sinal = 1 /\ ~DecIsZero(d)

(***************************************************************************)
(* parser.py: the field extractor and the scalar converters.               *)
(***************************************************************************)
\* Faulty variant of extrair_campo: the start taken as a 0-indexed position.
extrair_campo_indice_zero(linha, inicio, fim) == strip(Slice(linha, inicio, fim))
extrair_campo(linha, inicio, fim) == strip(Slice(linha, inicio - 1, fim))

\* Faulty variant of converter_valor_decimal: the scale is always 2.
\* the try statement, given the outcome d of Decimal(valor_limpo): the
\* quotient, zero under `except (ValueError, TypeError)`, or the exception
converter_valor_decimal_try(d, casas_decimais) ==
    IF d.ok THEN Return(DivPow10(d.val, casas_decimais))
    ELSE IF d.val.exc \in {"ValueError", "TypeError"} THEN Return(DecZero)
    ELSE d

converter_valor_decimal_duas_casas(valor, casas_decimais) ==
    IF valor = <<>> \/ strip(valor) = <<>> THEN Return(DecZero)
    ELSE converter_valor_decimal_try(DecimalOf(strip(valor)), 2)

converter_valor_decimal(valor, casas_decimais) ==
    IF valor = <<>> \/ strip(valor) = <<>> THEN Return(DecZero)
    ELSE converter_valor_decimal_try(DecimalOf(strip(valor)), casas_decimais)

\* datetime.date(ano, mes, dia): ValueError outside the calendar.
IsLeap(ano) == ano % 4 = 0 /\ (ano % 100 # 0 \/ ano % 400 = 0)
DaysInMonth(ano, mes) ==
    IF mes = 2 THEN (IF IsLeap(ano) THEN 29 ELSE 28)
    ELSE IF mes \in {4, 6, 9, 11} THEN 30 ELSE 31
date(ano, mes, dia) ==
    IF ano \in 1..9999 /\ mes \in 1..12 /\ dia >= 1 /\ dia <= DaysInMonth(ano, mes)
    THEN Return([ano |-> ano, mes |-> mes, dia |-> dia])
    ELSE Raise([exc |-> "ValueError", det |-> <<>>])
\* datetime.time(hora, minuto, segundo)
time(hora, minuto, segundo) ==
    IF hora \in 0..23 /\ minuto \in 0..59 /\ segundo \in 0..59
    THEN Return([hora |-> hora, minuto |-> minuto, segundo |-> segundo])
    ELSE Raise([exc |-> "ValueError", det |-> <<>>])

\* date(int(a), int(b), int(c)) inside try/except (ValueError, TypeError): None
\* when any int() or the constructor raises.
ValueOrNone(r) == IF r.ok THEN Some(r.val) ELSE None
DateOfInts(a, m, d) ==
    IF a.ok /\ m.ok /\ d.ok
    THEN ValueOrNone(date(IntSmall(a.val), IntSmall(m.val), IntSmall(d.val)))
    ELSE None
DateOrNone(ta, tm, td) == DateOfInts(int(ta), int(tm), int(td))
\* time(int(a), int(b), int(c)) inside try/except (ValueError, TypeError)
TimeOfInts(hh, mm, ss) ==
    IF hh.ok /\ mm.ok /\ ss.ok
    THEN ValueOrNone(time(IntSmall(hh.val), IntSmall(mm.val), IntSmall(ss.val)))
    ELSE None

converter_data(data_str, formato) ==
    IF data_str = <<>>
       \/ strip(data_str) \in {<<>>, <<"0", "1", "0", "1", "1", "0", "0", "1">>,
                               <<"0", "0", "0", "0", "0", "0", "0", "0">>}
    THEN None
    ELSE LET data_limpa == strip(data_str)
         IN IF formato = "DDMMAAAA" /\ Len(data_limpa) = 8
            THEN DateOrNone(Slice(data_limpa, 4, 8), Slice(data_limpa, 2, 4),
                            Slice(data_limpa, 0, 2))
            ELSE IF formato = "AAAAMMDD" /\ Len(data_limpa) = 8
            THEN DateOrNone(Slice(data_limpa, 0, 4), Slice(data_limpa, 4, 6),
                            Slice(data_limpa, 6, 8))
            ELSE IF formato = "AAMMDD" /\ Len(data_limpa) = 6
            THEN DateOrNone(<<"2", "0">> \o Slice(data_limpa, 0, 2),
                            Slice(data_limpa, 2, 4), Slice(data_limpa, 4, 6))
            ELSE None

converter_hora(hora_str) ==
    IF hora_str = <<>> \/ Len(strip(hora_str)) # 6 THEN None
    ELSE LET h == strip(hora_str)
         IN TimeOfInts(int(Slice(h, 0, 2)), int(Slice(h, 2, 4)), int(Slice(h, 4, 6)))

(***************************************************************************)
(* models.py: the pydantic record classes.  Constructing one validates the *)
(* declared constraints of its fields (max_length, ge, le, decimal_places) *)
(* and raises ValidationError naming the fields that fail.                 *)
(***************************************************************************)
MaxLength(texto, n) == Len(strip(texto)) <= n
DecimalPlaces(d, n) == Normalize(d).exp >= 0 - n
Validate(r, restricoes) ==
    LET falhas == SelectSeq(restricoes, LAMBDA c : ~c[2])
    IN IF falhas = <<>> THEN Return(r)
       ELSE Raise([exc |-> "ValidationError",
                   det |-> [i \in 1..Len(falhas) |-> falhas[i][1]]])

\* Python evaluates the arguments of a call in order: the first one that
\* raises is the exception of the call.
AnyRaise(args) == \E i \in 1..Len(args) : ~args[i].ok
FirstRaise(args) == args[CHOOSE i \in 1..Len(args) :
                            ~args[i].ok /\ \A j \in 1..(i - 1) : args[j].ok]
\* a call whose argument expressions have the outcomes args: the exception of
\* the first that raised, or else the outcome of the call itself
Chamada(args, chamada) == IF AnyRaise(args) THEN FirstRaise(args) ELSE chamada
\* Faulty variant of IntOr0: int(texto), without the `or 0`.
IntOr0_sem_or(texto) == int(texto)
\* int(texto or 0)
IntOr0(texto) == IF texto = <<>> THEN Return(IntZero) ELSE int(texto)

RegistroHeader(r) ==
    Validate(r, <<
        <<"estabelecimento_matriz", MaxLength(r.estabelecimento_matriz, 10)>>,
        <<"sequencia", MaxLength(r.sequencia, 7)>>,
        <<"empresa_adquirente", MaxLength(r.empresa_adquirente, 5)>>,
        <<"opcao_extrato", MaxLength(r.opcao_extrato, 2)>>,
        <<"transmissao", MaxLength(r.transmissao, 1)>>,
        <<"caixa_postal", MaxLength(r.caixa_postal, 20)>>,
        <<"versao_layout", MaxLength(r.versao_layout, 3)>>>>)

RegistroURAgenda(r) ==
    Validate(r, <<
        <<"estabelecimento_submissor", MaxLength(r.estabelecimento_submissor, 10)>>,
        <<"cpf_cnpj_titular", MaxLength(r.cpf_cnpj_titular, 14)>>,
        <<"cpf_cnpj_titular_movimento", MaxLength(r.cpf_cnpj_titular_movimento, 14)>>,
        <<"cpf_cnpj_recebedor", MaxLength(r.cpf_cnpj_recebedor, 14)>>,
        <<"bandeira", MaxLength(r.bandeira, 3)>>,
        <<"tipo_liquidacao", MaxLength(r.tipo_liquidacao, 3)>>,
        <<"matriz_pagamento", MaxLength(r.matriz_pagamento, 10)>>,
        <<"status_pagamento", MaxLength(r.status_pagamento, 2)>>,
        <<"sinal_valor_bruto", MaxLength(r.sinal_valor_bruto, 1)>>,
        <<"valor_bruto", DecimalPlaces(r.valor_bruto, 2)>>,
        <<"valor_bruto_original", MaxLength(r.valor_bruto_original, 13)>>,
        <<"sinal_taxa_administrativa", MaxLength(r.sinal_taxa_administrativa, 1)>>,
        <<"valor_taxa_administrativa", DecimalPlaces(r.valor_taxa_administrativa, 2)>>,
        <<"valor_taxa_administrativa_original", MaxLength(r.valor_taxa_administrativa_original, 13)>>,
        <<"sinal_valor_liquido", MaxLength(r.sinal_valor_liquido, 1)>>,
        <<"valor_liquido", DecimalPlaces(r.valor_liquido, 2)>>,
        <<"valor_liquido_original", MaxLength(r.valor_liquido_original, 13)>>,
        <<"banco", MaxLength(r.banco, 4)>>,
        <<"agencia", MaxLength(r.agencia, 5)>>,
        <<"conta", MaxLength(r.conta, 20)>>,
        <<"digito_conta", MaxLength(r.digito_conta, 1)>>,
        <<"quantidade_lancamentos", IntGe(r.quantidade_lancamentos, 0)>>,
        <<"tipo_lancamento", MaxLength(r.tipo_lancamento, 2)>>,
        <<"chave_ur", MaxLength(r.chave_ur, 100)>>,
        <<"numero_estabelecimento_pagamento", MaxLength(r.numero_estabelecimento_pagamento, 10)>>,
        <<"indicativo_lancamento_pendente", MaxLength(r.indicativo_lancamento_pendente, 1)>>,
        <<"indicativo_reenvio_pagamento", MaxLength(r.indicativo_reenvio_pagamento, 1)>>,
        <<"indicativo_negociacao_gravame", MaxLength(r.indicativo_negociacao_gravame, 1)>>,
        <<"cpf_cnpj_negociador", MaxLength(r.cpf_cnpj_negociador, 14)>>,
        <<"indicativo_saldo_aberto", MaxLength(r.indicativo_saldo_aberto, 1)>>>>)

RegistroDetalhe(r) ==
    Validate(r, <<
        <<"estabelecimento_submissor", MaxLength(r.estabelecimento_submissor, 10)>>,
        <<"bandeira_liquidacao", MaxLength(r.bandeira_liquidacao, 3)>>,
        <<"tipo_liquidacao", MaxLength(r.tipo_liquidacao, 3)>>,
        <<"parcela", IntGe(r.parcela, 0)>>,
        <<"parcela", IntLe(r.parcela, 99)>>,
        <<"numero_total_parcelas", IntGe(r.numero_total_parcelas, 0)>>,
        <<"numero_total_parcelas", IntLe(r.numero_total_parcelas, 99)>>,
        <<"codigo_autorizacao", MaxLength(r.codigo_autorizacao, 6)>>,
        <<"tipo_lancamento", MaxLength(r.tipo_lancamento, 2)>>,
        <<"chave_ur", MaxLength(r.chave_ur, 100)>>,
        <<"codigo_transacao_recebida", MaxLength(r.codigo_transacao_recebida, 22)>>,
        <<"codigo_ajuste", MaxLength(r.codigo_ajuste, 4)>>,
        <<"forma_pagamento", MaxLength(r.forma_pagamento, 3)>>,
        <<"bin_cartao", MaxLength(r.bin_cartao, 6)>>,
        <<"numero_cartao", MaxLength(r.numero_cartao, 4)>>,
        <<"nsu_doc", MaxLength(r.nsu_doc, 6)>>,
        <<"numero_nota_fiscal", MaxLength(r.numero_nota_fiscal, 10)>>,
        <<"tid", MaxLength(r.tid, 20)>>,
        <<"codigo_pedido_referencia", MaxLength(r.codigo_pedido_referencia, 20)>>,
        <<"taxa_mdr", DecimalPlaces(r.taxa_mdr, 3)>>,
        <<"taxa_recebimento_automatico", DecimalPlaces(r.taxa_recebimento_automatico, 3)>>,
        <<"taxa_venda", DecimalPlaces(r.taxa_venda, 3)>>,
        <<"sinal_valor_total_venda", MaxLength(r.sinal_valor_total_venda, 1)>>,
        <<"valor_total_venda", DecimalPlaces(r.valor_total_venda, 2)>>,
        <<"valor_total_venda_original", MaxLength(r.valor_total_venda_original, 13)>>,
        <<"sinal_valor_bruto", MaxLength(r.sinal_valor_bruto, 1)>>,
        <<"valor_bruto_venda_parcela", DecimalPlaces(r.valor_bruto_venda_parcela, 2)>>,
        <<"valor_bruto_original", MaxLength(r.valor_bruto_original, 13)>>,
        <<"sinal_valor_liquido", MaxLength(r.sinal_valor_liquido, 1)>>,
        <<"valor_liquido_venda", DecimalPlaces(r.valor_liquido_venda, 2)>>,
        <<"valor_liquido_original", MaxLength(r.valor_liquido_original, 13)>>,
        <<"sinal_valor_comissao", MaxLength(r.sinal_valor_comissao, 1)>>,
        <<"valor_comissao", DecimalPlaces(r.valor_comissao, 2)>>,
        <<"valor_comissao_original", MaxLength(r.valor_comissao_original, 13)>>,
        <<"grupo_cartoes", MaxLength(r.grupo_cartoes, 2)>>,
        <<"bandeira_autorizacao", MaxLength(r.bandeira_autorizacao, 3)>>,
        <<"codigo_unico_venda", MaxLength(r.codigo_unico_venda, 15)>>,
        <<"canal_venda", MaxLength(r.canal_venda, 3)>>,
        <<"numero_terminal", MaxLength(r.numero_terminal, 8)>>,
        <<"codigo_modelo_precificacao", MaxLength(r.codigo_modelo_precificacao, 5)>>,
        <<"numero_lote", MaxLength(r.numero_lote, 7)>>,
        <<"matriz_pagamento", MaxLength(r.matriz_pagamento, 10)>>,
        <<"tipo_cartao", MaxLength(r.tipo_cartao, 2)>>,
        <<"origem_cartao", MaxLength(r.origem_cartao, 1)>>,
        <<"arn", MaxLength(r.arn, 23)>>,
        <<"tipo_captura", MaxLength(r.tipo_captura, 2)>>,
        <<"cpf_cnpj_recebedor", MaxLength(r.cpf_cnpj_recebedor, 14)>>>>)

RegistroPix(r) ==
    Validate(r, <<
        <<"estabelecimento_submissor", MaxLength(r.estabelecimento_submissor, 10)>>,
        <<"tipo_transacao", MaxLength(r.tipo_transacao, 2)>>,
        <<"id_pix", MaxLength(r.id_pix, 36)>>,
        <<"nsu_doc", MaxLength(r.nsu_doc, 6)>>,
        <<"sinal_valor_bruto", MaxLength(r.sinal_valor_bruto, 1)>>,
        <<"valor_bruto", DecimalPlaces(r.valor_bruto, 2)>>,
        <<"valor_bruto_original", MaxLength(r.valor_bruto_original, 13)>>,
        <<"sinal_taxa_administrativa", MaxLength(r.sinal_taxa_administrativa, 1)>>,
        <<"valor_taxa_administrativa", DecimalPlaces(r.valor_taxa_administrativa, 2)>>,
        <<"valor_taxa_administrativa_original", MaxLength(r.valor_taxa_administrativa_original, 13)>>,
        <<"sinal_valor_liquido", MaxLength(r.sinal_valor_liquido, 1)>>,
        <<"valor_liquido", DecimalPlaces(r.valor_liquido, 2)>>,
        <<"valor_liquido_original", MaxLength(r.valor_liquido_original, 13)>>,
        <<"banco", MaxLength(r.banco, 4)>>,
        <<"agencia", MaxLength(r.agencia, 5)>>,
        <<"conta", MaxLength(r.conta, 20)>>,
        <<"taxa_administrativa", DecimalPlaces(r.taxa_administrativa, 2)>>,
        <<"tarifa_administrativa", DecimalPlaces(r.tarifa_administrativa, 2)>>,
        <<"canal_venda", MaxLength(r.canal_venda, 2)>>,
        <<"numero_logico_terminal", MaxLength(r.numero_logico_terminal, 8)>>,
        <<"tx_id", MaxLength(r.tx_id, 36)>>>>)

RegistroNegociacaoResumo(r) ==
    Validate(r, <<
        <<"cpf_cnpj", MaxLength(r.cpf_cnpj, 14)>>,
        <<"prazo_medio", IntGe(r.prazo_medio, 0)>>,
        <<"taxa_nominal", DecimalPlaces(r.taxa_nominal, 3)>>,
        <<"sinal_valor_bruto", MaxLength(r.sinal_valor_bruto, 1)>>,
        <<"valor_bruto", DecimalPlaces(r.valor_bruto, 2)>>,
        <<"valor_bruto_original", MaxLength(r.valor_bruto_original, 13)>>,
        <<"sinal_valor_liquido", MaxLength(r.sinal_valor_liquido, 1)>>,
        <<"valor_liquido", DecimalPlaces(r.valor_liquido, 2)>>,
        <<"valor_liquido_original", MaxLength(r.valor_liquido_original, 13)>>,
        <<"numero_negociacao_registradora", MaxLength(r.numero_negociacao_registradora, 20)>>,
        <<"forma_pagamento", MaxLength(r.forma_pagamento, 3)>>,
        <<"taxa_efetiva_negociacao", DecimalPlaces(r.taxa_efetiva_negociacao, 3)>>>>)

RegistroNegociacaoDetalhe(r) ==
    Validate(r, <<
        <<"cpf_cnpj", MaxLength(r.cpf_cnpj, 14)>>,
        <<"bandeira", MaxLength(r.bandeira, 3)>>,
        <<"tipo_liquidacao", MaxLength(r.tipo_liquidacao, 3)>>,
        <<"sinal_valor_bruto", MaxLength(r.sinal_valor_bruto, 1)>>,
        <<"valor_bruto", DecimalPlaces(r.valor_bruto, 2)>>,
        <<"valor_bruto_original", MaxLength(r.valor_bruto_original, 13)>>,
        <<"sinal_valor_liquido", MaxLength(r.sinal_valor_liquido, 1)>>,
        <<"valor_liquido", DecimalPlaces(r.valor_liquido, 2)>>,
        <<"valor_liquido_original", MaxLength(r.valor_liquido_original, 13)>>,
        <<"taxa_efetiva", DecimalPlaces(r.taxa_efetiva, 3)>>,
        <<"instituicao_financeira", MaxLength(r.instituicao_financeira, 50)>>,
        <<"numero_estabelecimento", MaxLength(r.numero_estabelecimento, 10)>>,
        <<"sinal_valor_desconto", MaxLength(r.sinal_valor_desconto, 1)>>,
        <<"valor_desconto", DecimalPlaces(r.valor_desconto, 2)>>,
        <<"valor_desconto_original", MaxLength(r.valor_desconto_original, 13)>>>>)

RegistroContaRecebimento(r) ==
    Validate(r, <<
        <<"banco", MaxLength(r.banco, 4)>>,
        <<"agencia", MaxLength(r.agencia, 5)>>,
        <<"conta", MaxLength(r.conta, 20)>>,
        <<"sinal_valor_depositado", MaxLength(r.sinal_valor_depositado, 1)>>,
        <<"valor_depositado", DecimalPlaces(r.valor_depositado, 2)>>,
        <<"valor_depositado_original", MaxLength(r.valor_depositado_original, 13)>>>>)

RegistroReservaFinanceira(r) ==
    Validate(r, <<
        <<"estabelecimento_submissor", MaxLength(r.estabelecimento_submissor, 10)>>,
        <<"cpf_cnpj_titular_movimento", MaxLength(r.cpf_cnpj_titular_movimento, 14)>>,
        <<"bandeira", MaxLength(r.bandeira, 3)>>,
        <<"matriz_pagamento", MaxLength(r.matriz_pagamento, 10)>>,
        <<"sinal_valor_reserva", MaxLength(r.sinal_valor_reserva, 1)>>,
        <<"valor_reserva", DecimalPlaces(r.valor_reserva, 2)>>,
        <<"valor_reserva_original", MaxLength(r.valor_reserva_original, 13)>>,
        <<"chave_ur", MaxLength(r.chave_ur, 100)>>,
        <<"numero_estabelecimento_pagamento", MaxLength(r.numero_estabelecimento_pagamento, 10)>>>>)

RegistroTrailer(r) ==
    Validate(r, <<
        <<"total_registros", IntGe(r.total_registros, 0)>>,
        <<"sinal_valor_liquido", MaxLength(r.sinal_valor_liquido, 1)>>,
        <<"valor_liquido_soma", DecimalPlaces(r.valor_liquido_soma, 2)>>,
        <<"valor_liquido_soma_original", MaxLength(r.valor_liquido_soma_original, 17)>>,
        <<"quantidade_registro_e", IntGe(r.quantidade_registro_e, 0)>>,
        <<"sinal_valor_bruto", MaxLength(r.sinal_valor_bruto, 1)>>,
        <<"valor_bruto_soma", DecimalPlaces(r.valor_bruto_soma, 2)>>,
        <<"valor_bruto_soma_original", MaxLength(r.valor_bruto_soma_original, 17)>>,
        <<"sinal_valor_liquido_cedido", MaxLength(r.sinal_valor_liquido_cedido, 1)>>,
        <<"valor_liquido_cedido", DecimalPlaces(r.valor_liquido_cedido, 2)>>,
        <<"valor_liquido_cedido_original", MaxLength(r.valor_liquido_cedido_original, 17)>>,
        <<"sinal_valor_liquido_gravame", MaxLength(r.sinal_valor_liquido_gravame, 1)>>,
        <<"valor_liquido_gravame", DecimalPlaces(r.valor_liquido_gravame, 2)>>,
        <<"valor_liquido_gravame_original", MaxLength(r.valor_liquido_gravame_original, 17)>>>>)

\* the record class of each tag
Classe(tag, r) ==
    CASE tag = <<"0">> -> RegistroHeader(r)
      [] tag = <<"D">> -> RegistroURAgenda(r)
      [] tag = <<"E">> -> RegistroDetalhe(r)
      [] tag = <<"8">> -> RegistroPix(r)
      [] tag = <<"A">> -> RegistroNegociacaoResumo(r)
      [] tag = <<"B">> -> RegistroNegociacaoDetalhe(r)
      [] tag = <<"C">> -> RegistroContaRecebimento(r)
      [] tag = <<"R">> -> RegistroReservaFinanceira(r)
      [] tag = <<"9">> -> RegistroTrailer(r)
\* the fields declared Field(frozen=True): tipo_registro, in each of the nine
\* record classes
CamposFrozen == {"tipo_registro"}
\* Faulty variant of setattr: no field is frozen.
setattr_sem_frozen(tag, registro, campo, valor) ==
    Classe(tag, [registro EXCEPT ![campo] = strip(valor)])
\* registro.campo = valor on a record of the class of the tag: a frozen field
\* raises ValidationError; any other field is validated with the new value
\* (validate_assignment=True, str_strip_whitespace=True) and then assigned.
\* The outcome is the record after the statement, or the exception, which
\* leaves the record as it was.
setattr(tag, registro, campo, valor) ==
    IF campo \in CamposFrozen
    THEN Raise([exc |-> "ValidationError", det |-> <<campo>>])
    ELSE Classe(tag, [registro EXCEPT ![campo] = strip(valor)])

parse_registro_header(linha) ==
    LET args == <<>>
        r == [tipo_registro |-> extrair_campo(linha, 1, 1),
              estabelecimento_matriz |-> extrair_campo(linha, 2, 11),
              data_processamento |-> converter_data(extrair_campo(linha, 12, 19), "AAAAMMDD"),
              periodo_inicial |-> converter_data(extrair_campo(linha, 20, 27), "AAAAMMDD"),
              periodo_final |-> converter_data(extrair_campo(linha, 28, 35), "AAAAMMDD"),
              sequencia |-> extrair_campo(linha, 36, 42),
              empresa_adquirente |-> extrair_campo(linha, 43, 47),
              opcao_extrato |-> extrair_campo(linha, 48, 49),
              transmissao |-> extrair_campo(linha, 50, 50),
              caixa_postal |-> extrair_campo(linha, 51, 70),
              versao_layout |-> extrair_campo(linha, 71, 73)]
    IN Chamada(args, RegistroHeader(r))

parse_registro_ur_agenda(linha) ==
    LET valor_bruto_original == extrair_campo(linha, 73, 85)
        valor_taxa_administrativa_original == extrair_campo(linha, 87, 99)
        valor_liquido_original == extrair_campo(linha, 101, 113)
        x_valor_bruto == converter_valor_decimal(valor_bruto_original, 2)
        x_valor_taxa_administrativa == converter_valor_decimal(valor_taxa_administrativa_original, 2)
        x_valor_liquido == converter_valor_decimal(valor_liquido_original, 2)
        x_quantidade_lancamentos == IntOr0(extrair_campo(linha, 144, 149))
        args == <<x_valor_bruto, x_valor_taxa_administrativa, x_valor_liquido, x_quantidade_lancamentos>>
        r == [tipo_registro |-> extrair_campo(linha, 1, 1),
              estabelecimento_submissor |-> extrair_campo(linha, 2, 11),
              cpf_cnpj_titular |-> extrair_campo(linha, 12, 25),
              cpf_cnpj_titular_movimento |-> extrair_campo(linha, 26, 39),
              cpf_cnpj_recebedor |-> extrair_campo(linha, 40, 53),
              bandeira |-> extrair_campo(linha, 54, 56),
              tipo_liquidacao |-> extrair_campo(linha, 57, 59),
              matriz_pagamento |-> extrair_campo(linha, 60, 69),
              status_pagamento |-> extrair_campo(linha, 70, 71),
              sinal_valor_bruto |-> extrair_campo(linha, 72, 72),
              valor_bruto |-> x_valor_bruto.val,
              valor_bruto_original |-> valor_bruto_original,
              sinal_taxa_administrativa |-> extrair_campo(linha, 86, 86),
              valor_taxa_administrativa |-> x_valor_taxa_administrativa.val,
              valor_taxa_administrativa_original |-> valor_taxa_administrativa_original,
              sinal_valor_liquido |-> extrair_campo(linha, 100, 100),
              valor_liquido |-> x_valor_liquido.val,
              valor_liquido_original |-> valor_liquido_original,
              banco |-> extrair_campo(linha, 114, 117),
              agencia |-> extrair_campo(linha, 118, 122),
              conta |-> extrair_campo(linha, 123, 142),
              digito_conta |-> extrair_campo(linha, 143, 143),
              quantidade_lancamentos |-> x_quantidade_lancamentos.val,
              tipo_lancamento |-> extrair_campo(linha, 150, 151),
              chave_ur |-> extrair_campo(linha, 152, 251),
              data_pagamento |-> converter_data(extrair_campo(linha, 268, 275), "DDMMAAAA"),
              data_envio_banco |-> converter_data(extrair_campo(linha, 276, 283), "DDMMAAAA"),
              data_vencimento_original |-> converter_data(extrair_campo(linha, 284, 291), "DDMMAAAA"),
              numero_estabelecimento_pagamento |-> extrair_campo(linha, 292, 301),
              indicativo_lancamento_pendente |-> extrair_campo(linha, 302, 302),
              indicativo_reenvio_pagamento |-> extrair_campo(linha, 303, 303),
              indicativo_negociacao_gravame |-> extrair_campo(linha, 304, 304),
              cpf_cnpj_negociador |-> extrair_campo(linha, 305, 318),
              indicativo_saldo_aberto |-> extrair_campo(linha, 319, 319)]
    IN Chamada(args, RegistroURAgenda(r))

parse_registro_detalhe(linha) ==
    LET valor_total_venda_original == extrair_campo(linha, 248, 260)
        valor_bruto_original == extrair_campo(linha, 262, 274)
        valor_liquido_original == extrair_campo(linha, 276, 288)
        valor_comissao_original == extrair_campo(linha, 290, 302)
        x_parcela == IntOr0(extrair_campo(linha, 18, 19))
        x_numero_total_parcelas == IntOr0(extrair_campo(linha, 20, 21))
        x_taxa_mdr == converter_valor_decimal(extrair_campo(linha, 232, 236), 3)
        x_taxa_recebimento_automatico == converter_valor_decimal(extrair_campo(linha, 237, 241), 3)
        x_taxa_venda == converter_valor_decimal(extrair_campo(linha, 242, 246), 3)
        x_valor_total_venda == converter_valor_decimal(valor_total_venda_original, 2)
        x_valor_bruto_venda_parcela == converter_valor_decimal(valor_bruto_original, 2)
        x_valor_liquido_venda == converter_valor_decimal(valor_liquido_original, 2)
        x_valor_comissao == converter_valor_decimal(valor_comissao_original, 2)
        args == <<x_parcela, x_numero_total_parcelas, x_taxa_mdr, x_taxa_recebimento_automatico, x_taxa_venda, x_valor_total_venda, x_valor_bruto_venda_parcela, x_valor_liquido_venda, x_valor_comissao>>
        r == [tipo_registro |-> extrair_campo(linha, 1, 1),
              estabelecimento_submissor |-> extrair_campo(linha, 2, 11),
              bandeira_liquidacao |-> extrair_campo(linha, 12, 14),
              tipo_liquidacao |-> extrair_campo(linha, 15, 17),
              parcela |-> x_parcela.val,
              numero_total_parcelas |-> x_numero_total_parcelas.val,
              codigo_autorizacao |-> extrair_campo(linha, 22, 27),
              tipo_lancamento |-> extrair_campo(linha, 28, 29),
              chave_ur |-> extrair_campo(linha, 30, 129),
              codigo_transacao_recebida |-> extrair_campo(linha, 130, 151),
              codigo_ajuste |-> extrair_campo(linha, 152, 155),
              forma_pagamento |-> extrair_campo(linha, 156, 158),
              bin_cartao |-> extrair_campo(linha, 166, 171),
              numero_cartao |-> extrair_campo(linha, 172, 175),
              nsu_doc |-> extrair_campo(linha, 176, 181),
              numero_nota_fiscal |-> extrair_campo(linha, 182, 191),
              tid |-> extrair_campo(linha, 192, 211),
              codigo_pedido_referencia |-> extrair_campo(linha, 212, 231),
              taxa_mdr |-> x_taxa_mdr.val,
              taxa_recebimento_automatico |-> x_taxa_recebimento_automatico.val,
              taxa_venda |-> x_taxa_venda.val,
              sinal_valor_total_venda |-> extrair_campo(linha, 247, 247),
              valor_total_venda |-> x_valor_total_venda.val,
              valor_total_venda_original |-> valor_total_venda_original,
              sinal_valor_bruto |-> extrair_campo(linha, 261, 261),
              valor_bruto_venda_parcela |-> x_valor_bruto_venda_parcela.val,
              valor_bruto_original |-> valor_bruto_original,
              sinal_valor_liquido |-> extrair_campo(linha, 275, 275),
              valor_liquido_venda |-> x_valor_liquido_venda.val,
              valor_liquido_original |-> valor_liquido_original,
              sinal_valor_comissao |-> extrair_campo(linha, 289, 289),
              valor_comissao |-> x_valor_comissao.val,
              valor_comissao_original |-> valor_comissao_original,
              hora_transacao |-> converter_hora(extrair_campo(linha, 471, 476)),
              grupo_cartoes |-> extrair_campo(linha, 477, 478),
              cpf_cnpj_recebedor |-> extrair_campo(linha, 479, 492),
              bandeira_autorizacao |-> extrair_campo(linha, 493, 495),
              codigo_unico_venda |-> extrair_campo(linha, 496, 510),
              canal_venda |-> extrair_campo(linha, 541, 543),
              numero_terminal |-> extrair_campo(linha, 544, 551),
              codigo_modelo_precificacao |-> extrair_campo(linha, 561, 565),
              data_autorizacao_venda |-> converter_data(extrair_campo(linha, 566, 573), "DDMMAAAA"),
              data_captura |-> converter_data(extrair_campo(linha, 574, 581), "DDMMAAAA"),
              data_lancamento |-> converter_data(extrair_campo(linha, 582, 589), "DDMMAAAA"),
              data_original_lancamento |-> converter_data(extrair_campo(linha, 590, 597), "DDMMAAAA"),
              numero_lote |-> extrair_campo(linha, 598, 604),
              data_vencimento_original |-> converter_data(extrair_campo(linha, 630, 637), "DDMMAAAA"),
              matriz_pagamento |-> extrair_campo(linha, 638, 647),
              tipo_cartao |-> extrair_campo(linha, 648, 649),
              origem_cartao |-> extrair_campo(linha, 650, 650),
              arn |-> extrair_campo(linha, 683, 705),
              tipo_captura |-> extrair_campo(linha, 707, 708)]
    IN Chamada(args, RegistroDetalhe(r))

\* the Pix decoder were its rate converted as the other decoders convert a rate
parse_registro_pix_taxa_escala_3(linha) ==
    LET valor_bruto_original == extrair_campo(linha, 75, 87)
        valor_taxa_administrativa_original == extrair_campo(linha, 89, 101)
        valor_liquido_original == extrair_campo(linha, 103, 115)
        x_valor_bruto == converter_valor_decimal(valor_bruto_original, 2)
        x_valor_taxa_administrativa == converter_valor_decimal(valor_taxa_administrativa_original, 2)
        x_valor_liquido == converter_valor_decimal(valor_liquido_original, 2)
        x_taxa_administrativa == converter_valor_decimal(extrair_campo(linha, 151, 155), 3)
        x_tarifa_administrativa == converter_valor_decimal(extrair_campo(linha, 156, 159), 2)
        args == <<x_valor_bruto, x_valor_taxa_administrativa, x_valor_liquido, x_taxa_administrativa, x_tarifa_administrativa>>
        r == [tipo_registro |-> extrair_campo(linha, 1, 1),
              estabelecimento_submissor |-> extrair_campo(linha, 2, 11),
              tipo_transacao |-> extrair_campo(linha, 12, 13),
              data_transacao |-> converter_data(extrair_campo(linha, 14, 19), "AAMMDD"),
              hora_transacao |-> converter_hora(extrair_campo(linha, 20, 25)),
              id_pix |-> extrair_campo(linha, 26, 61),
              nsu_doc |-> extrair_campo(linha, 62, 67),
              data_pagamento |-> converter_data(extrair_campo(linha, 68, 73), "AAMMDD"),
              sinal_valor_bruto |-> extrair_campo(linha, 74, 74),
              valor_bruto |-> x_valor_bruto.val,
              valor_bruto_original |-> valor_bruto_original,
              sinal_taxa_administrativa |-> extrair_campo(linha, 88, 88),
              valor_taxa_administrativa |-> x_valor_taxa_administrativa.val,
              valor_taxa_administrativa_original |-> valor_taxa_administrativa_original,
              sinal_valor_liquido |-> extrair_campo(linha, 102, 102),
              valor_liquido |-> x_valor_liquido.val,
              valor_liquido_original |-> valor_liquido_original,
              banco |-> extrair_campo(linha, 116, 119),
              agencia |-> extrair_campo(linha, 120, 124),
              conta |-> extrair_campo(linha, 125, 144),
              data_captura_transacao |-> converter_data(extrair_campo(linha, 145, 150), "AAMMDD"),
              taxa_administrativa |-> x_taxa_administrativa.val,
              tarifa_administrativa |-> x_tarifa_administrativa.val,
              canal_venda |-> extrair_campo(linha, 160, 161),
              numero_logico_terminal |-> extrair_campo(linha, 162, 169),
              tx_id |-> extrair_campo(linha, 240, 275)]
    IN Chamada(args, RegistroPix(r))

parse_registro_pix(linha) ==
    LET valor_bruto_original == extrair_campo(linha, 75, 87)
        valor_taxa_administrativa_original == extrair_campo(linha, 89, 101)
        valor_liquido_original == extrair_campo(linha, 103, 115)
        x_valor_bruto == converter_valor_decimal(valor_bruto_original, 2)
        x_valor_taxa_administrativa == converter_valor_decimal(valor_taxa_administrativa_original, 2)
        x_valor_liquido == converter_valor_decimal(valor_liquido_original, 2)
        x_taxa_administrativa == converter_valor_decimal(extrair_campo(linha, 151, 155), 2)
        x_tarifa_administrativa == converter_valor_decimal(extrair_campo(linha, 156, 159), 2)
        args == <<x_valor_bruto, x_valor_taxa_administrativa, x_valor_liquido, x_taxa_administrativa, x_tarifa_administrativa>>
        r == [tipo_registro |-> extrair_campo(linha, 1, 1),
              estabelecimento_submissor |-> extrair_campo(linha, 2, 11),
              tipo_transacao |-> extrair_campo(linha, 12, 13),
              data_transacao |-> converter_data(extrair_campo(linha, 14, 19), "AAMMDD"),
              hora_transacao |-> converter_hora(extrair_campo(linha, 20, 25)),
              id_pix |-> extrair_campo(linha, 26, 61),
              nsu_doc |-> extrair_campo(linha, 62, 67),
              data_pagamento |-> converter_data(extrair_campo(linha, 68, 73), "AAMMDD"),
              sinal_valor_bruto |-> extrair_campo(linha, 74, 74),
              valor_bruto |-> x_valor_bruto.val,
              valor_bruto_original |-> valor_bruto_original,
              sinal_taxa_administrativa |-> extrair_campo(linha, 88, 88),
              valor_taxa_administrativa |-> x_valor_taxa_administrativa.val,
              valor_taxa_administrativa_original |-> valor_taxa_administrativa_original,
              sinal_valor_liquido |-> extrair_campo(linha, 102, 102),
              valor_liquido |-> x_valor_liquido.val,
              valor_liquido_original |-> valor_liquido_original,
              banco |-> extrair_campo(linha, 116, 119),
              agencia |-> extrair_campo(linha, 120, 124),
              conta |-> extrair_campo(linha, 125, 144),
              data_captura_transacao |-> converter_data(extrair_campo(linha, 145, 150), "AAMMDD"),
              taxa_administrativa |-> x_taxa_administrativa.val,
              tarifa_administrativa |-> x_tarifa_administrativa.val,
              canal_venda |-> extrair_campo(linha, 160, 161),
              numero_logico_terminal |-> extrair_campo(linha, 162, 169),
              tx_id |-> extrair_campo(linha, 240, 275)]
    IN Chamada(args, RegistroPix(r))

parse_registro_negociacao_resumo(linha) ==
    LET valor_bruto_original == extrair_campo(linha, 37, 49)
        valor_liquido_original == extrair_campo(linha, 51, 63)
        x_prazo_medio == IntOr0(extrair_campo(linha, 28, 30))
        x_taxa_nominal == converter_valor_decimal(extrair_campo(linha, 31, 35), 3)
        x_valor_bruto == converter_valor_decimal(valor_bruto_original, 2)
        x_valor_liquido == converter_valor_decimal(valor_liquido_original, 2)
        x_taxa_efetiva_negociacao == converter_valor_decimal(extrair_campo(linha, 87, 91), 3)
        args == <<x_prazo_medio, x_taxa_nominal, x_valor_bruto, x_valor_liquido, x_taxa_efetiva_negociacao>>
        r == [tipo_registro |-> extrair_campo(linha, 1, 1),
              data_negociacao |-> converter_data(extrair_campo(linha, 2, 7), "AAMMDD"),
              data_pagamento |-> converter_data(extrair_campo(linha, 8, 13), "AAMMDD"),
              cpf_cnpj |-> extrair_campo(linha, 14, 27),
              prazo_medio |-> x_prazo_medio.val,
              taxa_nominal |-> x_taxa_nominal.val,
              sinal_valor_bruto |-> extrair_campo(linha, 36, 36),
              valor_bruto |-> x_valor_bruto.val,
              valor_bruto_original |-> valor_bruto_original,
              sinal_valor_liquido |-> extrair_campo(linha, 50, 50),
              valor_liquido |-> x_valor_liquido.val,
              valor_liquido_original |-> valor_liquido_original,
              numero_negociacao_registradora |-> extrair_campo(linha, 64, 83),
              forma_pagamento |-> extrair_campo(linha, 84, 86),
              taxa_efetiva_negociacao |-> x_taxa_efetiva_negociacao.val]
    IN Chamada(args, RegistroNegociacaoResumo(r))

parse_registro_negociacao_detalhe(linha) ==
    LET valor_bruto_original == extrair_campo(linha, 35, 47)
        valor_liquido_original == extrair_campo(linha, 49, 61)
        valor_desconto_original == extrair_campo(linha, 128, 140)
        x_valor_bruto == converter_valor_decimal(valor_bruto_original, 2)
        x_valor_liquido == converter_valor_decimal(valor_liquido_original, 2)
        x_taxa_efetiva == converter_valor_decimal(extrair_campo(linha, 62, 66), 3)
        x_valor_desconto == converter_valor_decimal(valor_desconto_original, 2)
        args == <<x_valor_bruto, x_valor_liquido, x_taxa_efetiva, x_valor_desconto>>
        r == [tipo_registro |-> extrair_campo(linha, 1, 1),
              data_negociacao |-> converter_data(extrair_campo(linha, 2, 7), "AAMMDD"),
              data_vencimento_original |-> converter_data(extrair_campo(linha, 8, 13), "AAMMDD"),
              cpf_cnpj |-> extrair_campo(linha, 14, 27),
              bandeira |-> extrair_campo(linha, 28, 30),
              tipo_liquidacao |-> extrair_campo(linha, 31, 33),
              sinal_valor_bruto |-> extrair_campo(linha, 34, 34),
              valor_bruto |-> x_valor_bruto.val,
              valor_bruto_original |-> valor_bruto_original,
              sinal_valor_liquido |-> extrair_campo(linha, 48, 48),
              valor_liquido |-> x_valor_liquido.val,
              valor_liquido_original |-> valor_liquido_original,
              taxa_efetiva |-> x_taxa_efetiva.val,
              instituicao_financeira |-> extrair_campo(linha, 67, 116),
              numero_estabelecimento |-> extrair_campo(linha, 117, 126),
              sinal_valor_desconto |-> extrair_campo(linha, 127, 127),
              valor_desconto |-> x_valor_desconto.val,
              valor_desconto_original |-> valor_desconto_original]
    IN Chamada(args, RegistroNegociacaoDetalhe(r))

\* Faulty variant of parse_registro_conta_recebimento: the amount is converted
\* at scale 3.
parse_registro_conta_recebimento_escala_3(linha) ==
    LET valor_depositado_original == extrair_campo(linha, 32, 44)
        x_valor_depositado == converter_valor_decimal(valor_depositado_original, 3)
        args == <<x_valor_depositado>>
        r == [tipo_registro |-> extrair_campo(linha, 1, 1),
              banco |-> extrair_campo(linha, 2, 5),
              agencia |-> extrair_campo(linha, 6, 10),
              conta |-> extrair_campo(linha, 11, 30),
              sinal_valor_depositado |-> extrair_campo(linha, 31, 31),
              valor_depositado |-> x_valor_depositado.val,
              valor_depositado_original |-> valor_depositado_original]
    IN Chamada(args, RegistroContaRecebimento(r))

parse_registro_conta_recebimento(linha) ==
    LET valor_depositado_original == extrair_campo(linha, 32, 44)
        x_valor_depositado == converter_valor_decimal(valor_depositado_original, 2)
        args == <<x_valor_depositado>>
        r == [tipo_registro |-> extrair_campo(linha, 1, 1),
              banco |-> extrair_campo(linha, 2, 5),
              agencia |-> extrair_campo(linha, 6, 10),
              conta |-> extrair_campo(linha, 11, 30),
              sinal_valor_depositado |-> extrair_campo(linha, 31, 31),
              valor_depositado |-> x_valor_depositado.val,
              valor_depositado_original |-> valor_depositado_original]
    IN Chamada(args, RegistroContaRecebimento(r))

\* Faulty variant of parse_registro_reserva_financeira: tipo_registro is read
\* one column to the right.
parse_registro_reserva_financeira_tag_deslocado(linha) ==
    LET valor_reserva_original == extrair_campo(linha, 40, 52)
        x_valor_reserva == converter_valor_decimal(valor_reserva_original, 2)
        args == <<x_valor_reserva>>
        r == [tipo_registro |-> extrair_campo(linha, 2, 2),
              estabelecimento_submissor |-> extrair_campo(linha, 2, 11),
              cpf_cnpj_titular_movimento |-> extrair_campo(linha, 12, 25),
              bandeira |-> extrair_campo(linha, 26, 28),
              matriz_pagamento |-> extrair_campo(linha, 29, 38),
              sinal_valor_reserva |-> extrair_campo(linha, 39, 39),
              valor_reserva |-> x_valor_reserva.val,
              valor_reserva_original |-> valor_reserva_original,
              chave_ur |-> extrair_campo(linha, 53, 152),
              data_vencimento_original |-> converter_data(extrair_campo(linha, 153, 160), "DDMMAAAA"),
              numero_estabelecimento_pagamento |-> extrair_campo(linha, 161, 170)]
    IN Chamada(args, RegistroReservaFinanceira(r))

parse_registro_reserva_financeira(linha) ==
    LET valor_reserva_original == extrair_campo(linha, 40, 52)
        x_valor_reserva == converter_valor_decimal(valor_reserva_original, 2)
        args == <<x_valor_reserva>>
        r == [tipo_registro |-> extrair_campo(linha, 1, 1),
              estabelecimento_submissor |-> extrair_campo(linha, 2, 11),
              cpf_cnpj_titular_movimento |-> extrair_campo(linha, 12, 25),
              bandeira |-> extrair_campo(linha, 26, 28),
              matriz_pagamento |-> extrair_campo(linha, 29, 38),
              sinal_valor_reserva |-> extrair_campo(linha, 39, 39),
              valor_reserva |-> x_valor_reserva.val,
              valor_reserva_original |-> valor_reserva_original,
              chave_ur |-> extrair_campo(linha, 53, 152),
              data_vencimento_original |-> converter_data(extrair_campo(linha, 153, 160), "DDMMAAAA"),
              numero_estabelecimento_pagamento |-> extrair_campo(linha, 161, 170)]
    IN Chamada(args, RegistroReservaFinanceira(r))

parse_registro_trailer(linha) ==
    LET valor_liquido_soma_original == extrair_campo(linha, 14, 30)
        valor_bruto_soma_original == extrair_campo(linha, 43, 59)
        valor_liquido_cedido_original == extrair_campo(linha, 61, 77)
        valor_liquido_gravame_original == extrair_campo(linha, 79, 95)
        x_total_registros == IntOr0(extrair_campo(linha, 2, 12))
        x_valor_liquido_soma == converter_valor_decimal(valor_liquido_soma_original, 2)
        x_quantidade_registro_e == IntOr0(extrair_campo(linha, 31, 41))
        x_valor_bruto_soma == converter_valor_decimal(valor_bruto_soma_original, 2)
        x_valor_liquido_cedido == converter_valor_decimal(valor_liquido_cedido_original, 2)
        x_valor_liquido_gravame == converter_valor_decimal(valor_liquido_gravame_original, 2)
        args == <<x_total_registros, x_valor_liquido_soma, x_quantidade_registro_e, x_valor_bruto_soma, x_valor_liquido_cedido, x_valor_liquido_gravame>>
        r == [tipo_registro |-> extrair_campo(linha, 1, 1),
              total_registros |-> x_total_registros.val,
              sinal_valor_liquido |-> extrair_campo(linha, 13, 13),
              valor_liquido_soma |-> x_valor_liquido_soma.val,
              valor_liquido_soma_original |-> valor_liquido_soma_original,
              quantidade_registro_e |-> x_quantidade_registro_e.val,
              sinal_valor_bruto |-> extrair_campo(linha, 42, 42),
              valor_bruto_soma |-> x_valor_bruto_soma.val,
              valor_bruto_soma_original |-> valor_bruto_soma_original,
              sinal_valor_liquido_cedido |-> extrair_campo(linha, 60, 60),
              valor_liquido_cedido |-> x_valor_liquido_cedido.val,
              valor_liquido_cedido_original |-> valor_liquido_cedido_original,
              sinal_valor_liquido_gravame |-> extrair_campo(linha, 78, 78),
              valor_liquido_gravame |-> x_valor_liquido_gravame.val,
              valor_liquido_gravame_original |-> valor_liquido_gravame_original]
    IN Chamada(args, RegistroTrailer(r))

(***************************************************************************)
(* parser.py: the dispatch table.                                          *)
(***************************************************************************)
PARSERS_keys == {<<"0">>, <<"D">>, <<"E">>, <<"8">>, <<"A">>, <<"B">>, <<"C">>, <<"R">>, <<"9">>}
PARSERS(tipo_registro, linha) ==
    CASE tipo_registro = <<"0">> -> parse_registro_header(linha)
      [] tipo_registro = <<"D">> -> parse_registro_ur_agenda(linha)
      [] tipo_registro = <<"E">> -> parse_registro_detalhe(linha)
      [] tipo_registro = <<"8">> -> parse_registro_pix(linha)
      [] tipo_registro = <<"A">> -> parse_registro_negociacao_resumo(linha)
      [] tipo_registro = <<"B">> -> parse_registro_negociacao_detalhe(linha)
      [] tipo_registro = <<"C">> -> parse_registro_conta_recebimento(linha)
      [] tipo_registro = <<"R">> -> parse_registro_reserva_financeira(linha)
      [] tipo_registro = <<"9">> -> parse_registro_trailer(linha)

\* dominios.TIPOS_ARQUIVO.get(codigo, padrao): the file-kind descriptions.
TIPOS_ARQUIVO_get(codigo, padrao) ==
    CASE codigo = <<"0", "3">> -> "Captura/Previsao"
      [] codigo = <<"0", "4">> -> "Liquidacao/Pagamento"
      [] codigo = <<"0", "9">> -> "Saldo em aberto"
      [] codigo = <<"1", "5">> -> "Negociacao de Recebiveis Cielo (NRC)"
      [] codigo = <<"1", "6">> -> "Pix"
      [] OTHER -> padrao

(***************************************************************************)
(* models.py: Estatisticas, LinhaErro, ResultadoProcessamento.             *)
(***************************************************************************)
Estatisticas ==
    [total_linhas |-> 0, total_ur_agenda |-> 0, total_detalhes |-> 0,
     total_pix |-> 0, total_negociacoes |-> 0,
     valor_bruto_total |-> DecZero, valor_liquido_total |-> DecZero]

LinhaErro(linha, tipo, erro, conteudo) ==
    [linha |-> linha, tipo |-> tipo, erro |-> erro, conteudo |-> conteudo]

\* Faulty variant of ResultadoProcessamento: a new result that still counts a
\* line of an earlier parse.
ResultadoProcessamento_com_restos ==
    [header |-> None, tipo_arquivo |-> None, tipo_arquivo_descricao |-> None,
     ur_agenda |-> <<>>, detalhes |-> <<>>, pix |-> <<>>,
     negociacoes_resumo |-> <<>>, negociacoes_detalhe |-> <<>>,
     contas_recebimento |-> <<>>, reserva_financeira |-> <<>>,
     trailer |-> None, estatisticas |-> [Estatisticas EXCEPT !.total_linhas = 1],
     linhas_nao_processadas |-> <<>>]

ResultadoProcessamento ==
    [header |-> None, tipo_arquivo |-> None, tipo_arquivo_descricao |-> None,
     ur_agenda |-> <<>>, detalhes |-> <<>>, pix |-> <<>>,
     negociacoes_resumo |-> <<>>, negociacoes_detalhe |-> <<>>,
     contas_recebimento |-> <<>>, reserva_financeira |-> <<>>,
     trailer |-> None, estatisticas |-> Estatisticas,
     linhas_nao_processadas |-> <<>>]

\* str(e): the message of an exception, kept as the exception's class and detail.
str(e) == e

\* Faulty variant of except_Exception: a handler as narrow as the one of
\* converter_valor_decimal, `except (ValueError, TypeError)`.
except_ValueError_TypeError(e) == e.exc \in {"ValueError", "TypeError"}

\* `except Exception`: the handler's classes.  ValueError, InvalidOperation and
\* ValidationError are all subclasses of Exception.
except_Exception(e) == e.exc \in {"ValueError", "TypeError", "InvalidOperation", "ValidationError"}

(***************************************************************************)
(* parser.py, _processar_io: the branches of the loop body.                *)
(***************************************************************************)
\* Faulty variant of somar_ur_agenda: the gross amount added to both sums.
somar_ur_agenda_bruto_nas_duas(estatisticas, registro) ==
    [estatisticas EXCEPT
        !.total_ur_agenda = @ + 1,
        !.valor_bruto_total = DecAdd(@, registro.valor_bruto),
        !.valor_liquido_total = DecAdd(@, registro.valor_bruto)]

\* Faulty variant of somar_ur_agenda: a D record is also counted as a detail.
somar_ur_agenda_conta_detalhe(estatisticas, registro) ==
    [estatisticas EXCEPT
       !.total_ur_agenda = @ + 1,
       !.total_detalhes = @ + 1,
       !.valor_bruto_total = DecAdd(@, registro.valor_bruto),
       !.valor_liquido_total = DecAdd(@, registro.valor_liquido)]

\* Faulty variant of somar_ur_agenda: an amount whose sign column holds '-'
\* is subtracted.
somar_ur_agenda_com_sinal(estatisticas, registro) ==
    [estatisticas EXCEPT
        !.total_ur_agenda = @ + 1,
        !.valor_bruto_total =
            DecAdd(@, IF registro.sinal_valor_bruto = <<"-">>
                      THEN [registro.valor_bruto EXCEPT !.sinal = 1]
                      ELSE registro.valor_bruto),
        !.valor_liquido_total =
            DecAdd(@, IF registro.sinal_valor_liquido = <<"-">>
                      THEN [registro.valor_liquido EXCEPT !.sinal = 1]
                      ELSE registro.valor_liquido)]

\* the D branch's updates of Estatisticas
somar_ur_agenda(estatisticas, registro) ==
    [estatisticas EXCEPT
        !.total_ur_agenda = @ + 1,
        !.valor_bruto_total = DecAdd(@, registro.valor_bruto),
        !.valor_liquido_total = DecAdd(@, registro.valor_liquido)]

\* Faulty variant of armazenar: a trailer already stored is kept.
armazenar_primeiro_trailer_vence(res, tipo_registro, registro) ==
    CASE tipo_registro = <<"0">> ->
           [res EXCEPT
              !.header = Some(registro),
              !.tipo_arquivo = Some(registro.opcao_extrato),
              !.tipo_arquivo_descricao =
                  Some(TIPOS_ARQUIVO_get(registro.opcao_extrato, "Desconhecido"))]
      [] tipo_registro = <<"D">> ->
           [res EXCEPT
              !.ur_agenda = Append(@, registro),
              !.estatisticas = somar_ur_agenda(@, registro)]
      [] tipo_registro = <<"E">> ->
           [res EXCEPT !.detalhes = Append(@, registro),
                       !.estatisticas.total_detalhes = @ + 1]
      [] tipo_registro = <<"8">> ->
           [res EXCEPT !.pix = Append(@, registro),
                       !.estatisticas.total_pix = @ + 1]
      [] tipo_registro = <<"A">> ->
           [res EXCEPT !.negociacoes_resumo = Append(@, registro),
                       !.estatisticas.total_negociacoes = @ + 1]
      [] tipo_registro = <<"B">> ->
           [res EXCEPT !.negociacoes_detalhe = Append(@, registro)]
      [] tipo_registro = <<"C">> ->
           [res EXCEPT !.contas_recebimento = Append(@, registro)]
      [] tipo_registro = <<"R">> ->
           [res EXCEPT !.reserva_financeira = Append(@, registro)]
      [] tipo_registro = <<"9">> ->
           [res EXCEPT !.trailer = IF @ = None THEN Some(registro) ELSE @]

\* Faulty variant of armazenar: a record is put at the head of its list.
armazenar_no_inicio(res, tipo_registro, registro) ==
    CASE tipo_registro = <<"0">> ->
           [res EXCEPT
              !.header = Some(registro),
              !.tipo_arquivo = Some(registro.opcao_extrato),
              !.tipo_arquivo_descricao =
                  Some(TIPOS_ARQUIVO_get(registro.opcao_extrato, "Desconhecido"))]
      [] tipo_registro = <<"D">> ->
           [res EXCEPT
              !.ur_agenda = <<registro>> \o @,
              !.estatisticas = somar_ur_agenda(@, registro)]
      [] tipo_registro = <<"E">> ->
           [res EXCEPT !.detalhes = <<registro>> \o @,
                       !.estatisticas.total_detalhes = @ + 1]
      [] tipo_registro = <<"8">> ->
           [res EXCEPT !.pix = <<registro>> \o @,
                       !.estatisticas.total_pix = @ + 1]
      [] tipo_registro = <<"A">> ->
           [res EXCEPT !.negociacoes_resumo = <<registro>> \o @,
                       !.estatisticas.total_negociacoes = @ + 1]
      [] tipo_registro = <<"B">> ->
           [res EXCEPT !.negociacoes_detalhe = <<registro>> \o @]
      [] tipo_registro = <<"C">> ->
           [res EXCEPT !.contas_recebimento = <<registro>> \o @]
      [] tipo_registro = <<"R">> ->
           [res EXCEPT !.reserva_financeira = <<registro>> \o @]
      [] tipo_registro = <<"9">> ->
           [res EXCEPT !.trailer = Some(registro)]

\* the branch of a decoded record, by tag
armazenar(res, tipo_registro, registro) ==
    CASE tipo_registro = <<"0">> ->
           [res EXCEPT
              !.header = Some(registro),
              !.tipo_arquivo = Some(registro.opcao_extrato),
              !.tipo_arquivo_descricao =
                  Some(TIPOS_ARQUIVO_get(registro.opcao_extrato, "Desconhecido"))]
      [] tipo_registro = <<"D">> ->
           [res EXCEPT
              !.ur_agenda = Append(@, registro),
              !.estatisticas = somar_ur_agenda(@, registro)]
      [] tipo_registro = <<"E">> ->
           [res EXCEPT !.detalhes = Append(@, registro),
                       !.estatisticas.total_detalhes = @ + 1]
      [] tipo_registro = <<"8">> ->
           [res EXCEPT !.pix = Append(@, registro),
                       !.estatisticas.total_pix = @ + 1]
      [] tipo_registro = <<"A">> ->
           [res EXCEPT !.negociacoes_resumo = Append(@, registro),
                       !.estatisticas.total_negociacoes = @ + 1]
      [] tipo_registro = <<"B">> ->
           [res EXCEPT !.negociacoes_detalhe = Append(@, registro)]
      [] tipo_registro = <<"C">> ->
           [res EXCEPT !.contas_recebimento = Append(@, registro)]
      [] tipo_registro = <<"R">> ->
           [res EXCEPT !.reserva_financeira = Append(@, registro)]
      [] tipo_registro = <<"9">> ->
           [res EXCEPT !.trailer = Some(registro)]

\* Faulty variant of linha_desconhecida: the entry carries an error message.
linha_desconhecida_com_erro(res, numero_linha, tipo_registro, linha) ==
    [res EXCEPT !.linhas_nao_processadas =
        Append(@, LinhaErro(numero_linha, tipo_registro,
                            Some([exc |-> "ValueError", det |-> tipo_registro]),
                            Slice(linha, 0, 100)))]

\* the else branch: a tag that is none of the nine
linha_desconhecida(res, numero_linha, tipo_registro, linha) ==
    [res EXCEPT !.linhas_nao_processadas =
        Append(@, LinhaErro(numero_linha, tipo_registro, None, Slice(linha, 0, 100)))]

\* Faulty variant of linha_com_excecao: conteudo is the whole line.
linha_com_excecao_sem_corte(res, numero_linha, tipo_registro, e, linha) ==
    [res EXCEPT !.linhas_nao_processadas =
        Append(@, LinhaErro(numero_linha, tipo_registro, Some(str(e)), linha))]

\* Faulty variant of linha_com_excecao: the line that failed is counted by the
\* counter of its kind.
linha_com_excecao_contada(res, numero_linha, tipo_registro, e, linha) ==
    [res EXCEPT
        !.linhas_nao_processadas =
            Append(@, LinhaErro(numero_linha, tipo_registro, Some(str(e)),
                                Slice(linha, 0, 100))),
        !.estatisticas.total_ur_agenda = IF tipo_registro = <<"D">> THEN @ + 1 ELSE @,
        !.estatisticas.total_detalhes = IF tipo_registro = <<"E">> THEN @ + 1 ELSE @,
        !.estatisticas.total_pix = IF tipo_registro = <<"8">> THEN @ + 1 ELSE @,
        !.estatisticas.total_negociacoes = IF tipo_registro = <<"A">> THEN @ + 1 ELSE @]

\* the except branch
linha_com_excecao(res, numero_linha, tipo_registro, e, linha) ==
    [res EXCEPT !.linhas_nao_processadas =
        Append(@, LinhaErro(numero_linha, tipo_registro, Some(str(e)),
                            Slice(linha, 0, 100)))]

\* Faulty variant of processar_io_tentar: a line whose decoder raised leaves
\* no entry.
processar_io_tentar_sem_entrada(contado, numero_linha, tipo_registro, linha, p) ==
    IF p.ok THEN Return(armazenar(contado, tipo_registro, p.val))
    ELSE IF except_Exception(p.val) THEN Return(contado)
    ELSE p
\* the loop body after the line ending is stripped and the line is counted
processar_io_tentar(contado, numero_linha, tipo_registro, linha, p) ==
    IF p.ok THEN Return(armazenar(contado, tipo_registro, p.val))
    ELSE IF except_Exception(p.val)
    THEN Return(linha_com_excecao(contado, numero_linha, tipo_registro, p.val, linha))
    ELSE p
\* Faulty variant of processar_io_linha_limpa: a line of white space is
\* skipped as a blank line is.
processar_io_linha_limpa_branca_por_strip(contado, numero_linha, linha) ==
    IF strip(linha) = <<>> THEN Return(contado)
    ELSE IF Slice(linha, 0, 1) \notin PARSERS_keys
    THEN Return(linha_desconhecida(contado, numero_linha, Slice(linha, 0, 1), linha))
    ELSE processar_io_tentar(contado, numero_linha, Slice(linha, 0, 1), linha,
                             PARSERS(Slice(linha, 0, 1), linha))
processar_io_linha_limpa(contado, numero_linha, linha) ==
    IF linha = <<>> THEN Return(contado)
    ELSE IF Slice(linha, 0, 1) \notin PARSERS_keys
    THEN Return(linha_desconhecida(contado, numero_linha, Slice(linha, 0, 1), linha))
    ELSE processar_io_tentar(contado, numero_linha, Slice(linha, 0, 1), linha,
                             PARSERS(Slice(linha, 0, 1), linha))

\* Faulty variant of processar_io_linha: the line is counted after the test
\* for a blank line.
processar_io_linha_conta_apos_branca(res, numero_linha, linha_fisica) ==
    IF rstrip(linha_fisica, {LF, CR}) = <<>> THEN Return(res)
    ELSE processar_io_linha_limpa([res EXCEPT !.estatisticas.total_linhas = @ + 1],
                                  numero_linha, rstrip(linha_fisica, {LF, CR}))

(***************************************************************************)
(* One iteration of the loop of _processar_io, on the physical line        *)
(* linha_fisica (with its line ending) at position numero_linha: the       *)
(* resultado after it, or the exception that leaves the loop.              *)
(***************************************************************************)
processar_io_linha(res, numero_linha, linha_fisica) ==
    processar_io_linha_limpa([res EXCEPT !.estatisticas.total_linhas = @ + 1],
                             numero_linha, rstrip(linha_fisica, {LF, CR}))

\* _processar_io as a whole: the loop over the lines of a file
RECURSIVE processar_io_desde(_, _, _)
processar_io_desde(res, numero_linha, linhas) ==
    IF linhas = <<>> THEN Return(res)
    ELSE LET r == processar_io_linha(res, numero_linha, Head(linhas))
         IN IF r.ok THEN processar_io_desde(r.val, numero_linha + 1, Tail(linhas))
            ELSE r
processar_io(linhas) == processar_io_desde(ResultadoProcessamento, 1, linhas)

\* Faulty variant of processar_streaming_io_tentar: the LinhaErro carries the
\* whole line.
processar_streaming_io_tentar_conteudo_inteiro(numero_linha, tipo_registro, linha, p) ==
    IF p.ok THEN Return(<<[erro |-> FALSE, val |-> p.val]>>)
    ELSE IF except_Exception(p.val)
    THEN Return(<<[erro |-> TRUE,
                   val |-> LinhaErro(numero_linha, tipo_registro,
                                     Some(str(p.val)), linha)]>>)
    ELSE p
\* the try statement of the streaming loop: the yield of the decoded record,
\* or of the LinhaErro of the except branch
processar_streaming_io_tentar(numero_linha, tipo_registro, linha, p) ==
    IF p.ok THEN Return(<<[erro |-> FALSE, val |-> p.val]>>)
    ELSE IF except_Exception(p.val)
    THEN Return(<<[erro |-> TRUE,
                   val |-> LinhaErro(numero_linha, tipo_registro,
                                     Some(str(p.val)), Slice(linha, 0, 100))]>>)
    ELSE p
\* the loop body after the line ending is stripped
processar_streaming_io_linha_limpa(numero_linha, linha) ==
    IF linha = <<>> THEN Return(<<>>)
    ELSE IF Slice(linha, 0, 1) \in PARSERS_keys
    THEN processar_streaming_io_tentar(numero_linha, Slice(linha, 0, 1), linha,
                                       PARSERS(Slice(linha, 0, 1), linha))
    ELSE Return(<<>>)

\* Faulty variant of processar_streaming_io_linha: a line whose tag is not in
\* the dispatch table is yielded as a LinhaErro, as the aggregate parser
\* records it.
processar_streaming_io_linha_emite_desconhecida(numero_linha, linha_fisica) ==
    IF rstrip(linha_fisica, {LF, CR}) # <<>>
       /\ Slice(rstrip(linha_fisica, {LF, CR}), 0, 1) \notin PARSERS_keys
    THEN Return(<<[erro |-> TRUE,
                   val |-> LinhaErro(numero_linha, Slice(linha_fisica, 0, 1), None,
                                     Slice(rstrip(linha_fisica, {LF, CR}), 0, 100))]>>)
    ELSE processar_streaming_io_linha_limpa(numero_linha, rstrip(linha_fisica, {LF, CR}))

\* Faulty variant of processar_streaming_io_linha: the trailer is consumed
\* without a yield.
processar_streaming_io_linha_sem_trailer(numero_linha, linha_fisica) ==
    IF Slice(linha_fisica, 0, 1) = <<"9">> THEN Return(<<>>)
    ELSE processar_streaming_io_linha_limpa(numero_linha, rstrip(linha_fisica, {LF, CR}))

(***************************************************************************)
(* One iteration of the loop of _processar_streaming_io: the items it      *)
(* yields for the physical line (none or one), or the exception that ends  *)
(* the generator.  A yielded item is [erro |-> FALSE, val |-> record] or   *)
(* [erro |-> TRUE, val |-> LinhaErro].                                     *)
(***************************************************************************)
processar_streaming_io_linha(numero_linha, linha_fisica) ==
    processar_streaming_io_linha_limpa(numero_linha, rstrip(linha_fisica, {LF, CR}))

(***************************************************************************)
(* The entry points of CieloEDIParser and the sources they read.  A text   *)
(* is a sequence of characters; bytes are a sequence whose elements are    *)
(* the ASCII characters themselves and BYTE_E9, a byte above 127.          *)
(***************************************************************************)
BYTE_E9 == "0xE9"
CHAR_E9 == "U+00E9"
\* the end of the first line of a text: the position of its first LF, or the
\* end of the text
fim_da_linha(texto) ==
    LET fins == {i \in 1..Len(texto) : texto[i] = LF}
    IN IF fins = {} THEN Len(texto) ELSE CHOOSE i \in fins : \A j \in fins : i <= j
\* iterating a text stream: the lines, each with its line ending
RECURSIVE linhas_do_texto(_)
linhas_do_texto(texto) ==
    IF texto = <<>> THEN <<>>
    ELSE <<SubSeq(texto, 1, fim_da_linha(texto))>>
             \o linhas_do_texto(SubSeq(texto, fim_da_linha(texto) + 1, Len(texto)))
\* StringIO(conteudo): the stream is created with newline="\n", which
\* translates nothing; only LF ends a line.
StringIO(conteudo) == linhas_do_texto(conteudo)
\* a stream opened with open(caminho, "r"): newline=None, universal newlines;
\* CR LF and CR alone are read as LF.
universal_newlines(texto) ==
    LET mantidos == SelectSeq([i \in 1..Len(texto) |-> i],
                              LAMBDA i : ~(texto[i] = LF /\ i > 1 /\ texto[i - 1] = CR))
    IN [j \in 1..Len(mantidos) |->
            IF texto[mantidos[j]] = CR THEN LF ELSE texto[mantidos[j]]]
\* Faulty variant of decode: bytes that do not decode are dropped.
decode_ignora_erros(dados, enc) ==
    Return(SelectSeq(dados, LAMBDA x : ~(enc = "ascii" /\ x = BYTE_E9)))
\* dados.decode(encoding), for the encodings latin-1 and ascii
decode(dados, enc) ==
    IF enc = "ascii" /\ \E i \in 1..Len(dados) : dados[i] = BYTE_E9
    THEN Raise([exc |-> "UnicodeDecodeError", det |-> <<>>])
    ELSE Return([i \in 1..Len(dados) |-> IF dados[i] = BYTE_E9 THEN CHAR_E9 ELSE dados[i]])

\* _processar_streaming_io: the items yielded for the lines, and the exception
\* that ended the generator, if any
RECURSIVE processar_streaming_io_desde(_, _, _)
processar_streaming_io_desde(itens, numero_linha, linhas) ==
    IF linhas = <<>> THEN [itens |-> itens, exc |-> None]
    ELSE LET r == processar_streaming_io_linha(numero_linha, Head(linhas))
         IN IF r.ok
            THEN processar_streaming_io_desde(itens \o r.val, numero_linha + 1, Tail(linhas))
            ELSE [itens |-> itens, exc |-> Some(r.val)]
processar_streaming_io(linhas) == processar_streaming_io_desde(<<>>, 1, linhas)
\* the bytes before the first byte that does not decode
antes_do_erro(dados) ==
    SubSeq(dados, 1, (CHOOSE i \in 1..Len(dados) :
                        dados[i] = BYTE_E9 /\ \A j \in 1..(i - 1) : dados[j] # BYTE_E9) - 1)
\* the complete lines of a text
linhas_completas(texto) == SelectSeq(linhas_do_texto(texto), LAMBDA l : Last(l) = LF)

(***************************************************************************)
(* The input lines of the model: fixed-width lines laid out as the         *)
(* fixtures of tests/conftest.py lay them out, with the columns the claims *)
(* are about left as parameters.                                           *)
(***************************************************************************)
LinhaBase(tag, n) == <<tag>> \o Rep(" ", n - 1)
\* the natural n as `largura` zero-padded decimal digits
ZeroPad(n, largura) ==
    LET ds == NatDigits(n)
    IN Rep("0", largura - Len(ds)) \o [i \in 1..Len(ds) |-> DigitChars[ds[i] + 1]]
\* the line with the texts of `campos` written at their 1-indexed columns;
\* campos lists <<column, text>> pairs by ascending column, from column `col` on
RECURSIVE Put(_, _, _)
Put(linha, campos, col) ==
    IF campos = <<>> THEN SubSeq(linha, col, Len(linha))
    ELSE LET c == Head(campos)[1]
             texto == Head(campos)[2]
         IN SubSeq(linha, col, c - 1) \o texto \o Put(linha, Tail(campos), c + Len(texto))
PutAll(linha, campos) == Put(linha, campos, 1)

LinhaHeader(opcao_extrato) ==
    PutAll(LinhaBase("0", 250), <<
        <<2, ZeroPad(1234567890, 10)>>, <<12, ZeroPad(20241218, 8)>>,
        <<20, ZeroPad(20241201, 8)>>, <<28, ZeroPad(20241231, 8)>>,
        <<36, ZeroPad(1, 7)>>, <<43, <<"C", "I", "E", "L", "O">> >>,
        <<48, opcao_extrato>>, <<50, <<"N">> >>, <<71, ZeroPad(151, 3)>> >>)

LinhaURAgenda(sinal, valor_bruto, valor_liquido, quantidade, data_pagamento) ==
    PutAll(LinhaBase("D", 400), <<
        <<2, ZeroPad(1234567890, 10)>>, <<12, Rep("1", 14)>>, <<26, Rep("2", 14)>>,
        <<40, Rep("3", 14)>>, <<54, ZeroPad(1, 3)>>, <<57, ZeroPad(2, 3)>>,
        <<60, ZeroPad(1234567890, 10)>>, <<70, ZeroPad(4, 2)>>,
        <<72, sinal>>, <<73, valor_bruto>>,
        <<86, <<"-">> >>, <<87, ZeroPad(2500, 13)>>,
        <<100, sinal>>, <<101, valor_liquido>>,
        <<114, ZeroPad(341, 4)>>, <<118, ZeroPad(12345, 5)>>, <<123, Rep("7", 20)>>,
        <<143, <<"1">> >>, <<144, quantidade>>, <<150, ZeroPad(2, 2)>>,
        <<268, data_pagamento>>, <<276, ZeroPad(17122024, 8)>>,
        <<284, ZeroPad(15122024, 8)>> >>)

LinhaDetalhe ==
    PutAll(LinhaBase("E", 760), <<
        <<2, ZeroPad(1234567890, 10)>>, <<12, ZeroPad(1, 3)>>, <<15, ZeroPad(2, 3)>>,
        <<18, ZeroPad(1, 2)>>, <<20, ZeroPad(3, 2)>>, <<22, ZeroPad(123456, 6)>>,
        <<28, ZeroPad(2, 2)>>, <<152, ZeroPad(0, 4)>>, <<156, ZeroPad(40, 3)>>,
        <<166, ZeroPad(123456, 6)>>, <<172, ZeroPad(7890, 4)>>, <<176, ZeroPad(654321, 6)>>,
        <<232, ZeroPad(2500, 5)>>, <<237, ZeroPad(0, 5)>>, <<242, ZeroPad(0, 5)>>,
        <<247, <<"+">> >>, <<248, ZeroPad(300000, 13)>>,
        <<261, <<"+">> >>, <<262, ZeroPad(100000, 13)>>,
        <<275, <<"+">> >>, <<276, ZeroPad(97500, 13)>>,
        <<289, <<"-">> >>, <<290, ZeroPad(2500, 13)>>,
        <<471, ZeroPad(143025, 6)>>, <<477, ZeroPad(1, 2)>> >>)

LinhaPix(data_transacao, hora_transacao) ==
    PutAll(LinhaBase("8", 400), <<
        <<2, ZeroPad(1234567890, 10)>>, <<12, ZeroPad(1, 2)>>,
        <<14, data_transacao>>, <<20, hora_transacao>>, <<26, Rep("a", 36)>>,
        <<62, ZeroPad(654321, 6)>>, <<68, ZeroPad(241218, 6)>>,
        <<74, <<"+">> >>, <<75, ZeroPad(50000, 13)>>,
        <<88, <<"-">> >>, <<89, ZeroPad(1000, 13)>>,
        <<102, <<"+">> >>, <<103, ZeroPad(49000, 13)>>,
        <<116, ZeroPad(341, 4)>>, <<120, ZeroPad(12345, 5)>>, <<125, Rep("7", 20)>>,
        <<145, ZeroPad(241218, 6)>>, <<151, ZeroPad(100, 5)>>, <<156, ZeroPad(100, 4)>>,
        <<160, ZeroPad(2, 2)>>, <<162, ZeroPad(12345678, 8)>>, <<240, Rep("b", 36)>> >>)

LinhaNegociacaoResumo ==
    PutAll(LinhaBase("A", 250), <<
        <<2, ZeroPad(241218, 6)>>, <<8, ZeroPad(241220, 6)>>, <<14, Rep("1", 14)>>,
        <<28, ZeroPad(30, 3)>>, <<31, ZeroPad(3500, 5)>>,
        <<36, <<"+">> >>, <<37, ZeroPad(1000000, 13)>>,
        <<50, <<"+">> >>, <<51, ZeroPad(965000, 13)>>,
        <<64, Rep("5", 20)>>, <<84, ZeroPad(1, 3)>>, <<87, ZeroPad(3650, 5)>> >>)

LinhaNegociacaoDetalhe ==
    PutAll(LinhaBase("B", 250), <<
        <<2, ZeroPad(241218, 6)>>, <<8, ZeroPad(241225, 6)>>, <<14, Rep("1", 14)>>,
        <<28, ZeroPad(1, 3)>>, <<31, ZeroPad(2, 3)>>,
        <<34, <<"+">> >>, <<35, ZeroPad(500000, 13)>>,
        <<48, <<"+">> >>, <<49, ZeroPad(482500, 13)>>,
        <<62, ZeroPad(3500, 5)>>, <<67, <<"B", "a", "n", "c", "o">> >>,
        <<117, ZeroPad(1234567890, 10)>>,
        <<127, <<"-">> >>, <<128, ZeroPad(17500, 13)>> >>)

LinhaContaRecebimento(valor_depositado) ==
    PutAll(LinhaBase("C", 250), <<
        <<2, ZeroPad(341, 4)>>, <<6, ZeroPad(12345, 5)>>, <<11, Rep("7", 20)>>,
        <<31, <<"+">> >>, <<32, valor_depositado>> >>)

LinhaReservaFinanceira ==
    PutAll(LinhaBase("R", 250), <<
        <<2, ZeroPad(1234567890, 10)>>, <<12, Rep("2", 14)>>, <<26, ZeroPad(1, 3)>>,
        <<29, ZeroPad(1234567890, 10)>>,
        <<39, <<"+">> >>, <<40, ZeroPad(100000, 13)>>,
        <<153, ZeroPad(25122024, 8)>>, <<161, ZeroPad(1234567890, 10)>> >>)

LinhaTrailer ==
    PutAll(LinhaBase("9", 250), <<
        <<2, ZeroPad(100, 11)>>,
        <<13, <<"+">> >>, <<14, ZeroPad(9750000, 17)>>, <<31, ZeroPad(50, 11)>>,
        <<42, <<"+">> >>, <<43, ZeroPad(10000000, 17)>>,
        <<60, <<"+">> >>, <<61, ZeroPad(0, 17)>>,
        <<78, <<"+">> >>, <<79, ZeroPad(0, 17)>> >>)

Letras(n) == Rep("X", n)
LinhaURAgendaValida ==
    LinhaURAgenda(<<"+">>, ZeroPad(100000, 13), ZeroPad(97500, 13), ZeroPad(10, 6),
                  ZeroPad(18122024, 8))
\* quantidade_lancamentos is not a number: int() raises ValueError
LinhaURAgendaQuantidadeInvalida ==
    LinhaURAgenda(<<"+">>, ZeroPad(100000, 13), ZeroPad(97500, 13), Letras(6),
                  ZeroPad(18122024, 8))
\* letters in the valor_bruto columns
LinhaURAgendaValorLetras ==
    LinhaURAgenda(<<"+">>, Letras(13), ZeroPad(97500, 13), ZeroPad(10, 6),
                  ZeroPad(18122024, 8))
\* a date that is no calendar date
LinhaURAgendaDataInvalida ==
    LinhaURAgenda(<<"+">>, ZeroPad(250, 13), ZeroPad(200, 13), ZeroPad(10, 6),
                  Rep("9", 8))
\* a time that is no time of day
LinhaPixHoraInvalida == LinhaPix(ZeroPad(241218, 6), Rep("9", 6))
LinhaDesconhecida == LinhaBase("X", 20)
\* total_registros is not a number, in a line shorter than 100 characters
LinhaTrailerCurtaInvalida == <<"9">> \o Letras(4)

\* The physical lines a file may hold, each with its line ending; the line
\* without one can only be the last line of its file.
LinePool ==
    { <<LF>>,
      LinhaHeader(<<"0", "4">>) \o <<LF>>,
      LinhaURAgendaValida \o <<LF>>,
      LinhaURAgendaQuantidadeInvalida \o <<LF>>,
      LinhaURAgendaValorLetras \o <<LF>>,
      LinhaURAgendaDataInvalida \o <<CR, LF>>,
      LinhaDetalhe \o <<LF>>,
      LinhaPixHoraInvalida \o <<LF>>,
      LinhaNegociacaoResumo \o <<LF>>,
      LinhaNegociacaoDetalhe \o <<LF>>,
      LinhaContaRecebimento(ZeroPad(965000, 13)) \o <<LF>>,
      LinhaReservaFinanceira \o <<LF>>,
      LinhaTrailer \o <<LF>>,
      LinhaDesconhecida \o <<LF>>,
      LinhaTrailerCurtaInvalida }

MaxLinhas == 3

(***************************************************************************)
(* The state.  arquivo: the physical lines read so far from the source;    *)
(* pc: whose turn it is; resultado: the ResultadoProcessamento that        *)
(* _processar_io builds; emitidos: the items _processar_streaming_io has   *)
(* yielded.  The two parsers read the same source, and the model runs them *)
(* in step: the aggregate parser takes the next line, then the streaming   *)
(* parser takes that line.  They share no state, so the order is no        *)
(* restriction.  valor, casas_decimais, retorno: a call of                 *)
(* converter_valor_decimal and its outcome.  data_str, formato: the        *)
(* arguments of a call of converter_data; hora_str: the argument of a call *)
(* of converter_hora; linha: the argument of a call of a decoder; linha,    *)
(* inicio, fim: the arguments of a call of extrair_campo; retorno holds    *)
(* the outcome of each of these calls.  chamadas: the calls of             *)
(* _processar_io in progress and finished on one text, each with its own   *)
(* position in the text and its own resultado; fonte, encoding: the source *)
(* handed to an entry point of a CieloEDIParser and the encoding of the    *)
(* parser.                                                                 *)
(***************************************************************************)
VARIABLES arquivo, pc, resultado, emitidos, valor, casas_decimais, retorno,
          data_str, formato, hora_str, linha, inicio, fim,
          chamadas, fonte, encoding

vars == <<arquivo, pc, resultado, emitidos, valor, casas_decimais, retorno,
          data_str, formato, hora_str, linha, inicio, fim,
          chamadas, fonte, encoding>>
parserVars == <<arquivo, pc, resultado, emitidos>>
valorVars == <<valor, casas_decimais>>
dataVars == <<data_str, formato>>
campoVars == <<linha, inicio, fim>>
\* the arguments of the calls
argVars == <<valorVars, dataVars, hora_str, campoVars>>
converterVars == <<argVars, retorno>>
\* the calls of the entry points of CieloEDIParser
entradaVars == <<chamadas, fonte, encoding>>

InitParser ==
    /\ arquivo = <<>>
    /\ pc = "agg"
    /\ resultado = ResultadoProcessamento
    /\ emitidos = <<>>
InitValorIdle == valor = <<>> /\ casas_decimais = 0
InitDataIdle == data_str = <<>> /\ formato = "DDMMAAAA"
InitHoraIdle == hora_str = <<>>
InitCampoIdle == linha = <<>> /\ inicio = 1 /\ fim = 1
InitEntradaIdle == chamadas = <<>> /\ fonte = <<>> /\ encoding = "latin-1"
InitConverterIdle ==
    /\ InitValorIdle
    /\ InitDataIdle
    /\ InitHoraIdle
    /\ InitCampoIdle
    /\ retorno = None

Init == InitParser /\ InitConverterIdle /\ InitEntradaIdle

\* for numero_linha, linha in enumerate(arquivo, 1): one iteration of
\* _processar_io on the next line of the source; an exception that leaves the
\* loop reaches the caller and no resultado is returned.
processar_io_passo(l) ==
    /\ pc = "agg"
    /\ Len(arquivo) < MaxLinhas
    /\ IF arquivo = <<>> THEN TRUE ELSE Last(Last(arquivo)) = LF
    /\ arquivo' = Append(arquivo, l)
    /\ \E r \in {processar_io_linha(resultado, Len(arquivo) + 1, l)} :
          IF r.ok THEN resultado' = r.val /\ pc' = "stream"
          ELSE resultado' = resultado /\ pc' = "excecao"
    /\ UNCHANGED <<emitidos, converterVars, entradaVars>>

\* one iteration of _processar_streaming_io, on the same line
processar_streaming_io_passo ==
    /\ pc = "stream"
    /\ \E r \in {processar_streaming_io_linha(Len(arquivo), Last(arquivo))} :
          IF r.ok THEN emitidos' = emitidos \o r.val /\ pc' = "agg"
          ELSE emitidos' = emitidos /\ pc' = "excecao"
    /\ UNCHANGED <<arquivo, resultado, converterVars, entradaVars>>

\* the source is exhausted: _processar_io returns resultado and the generator ends
fim_arquivo ==
    /\ pc = "agg"
    /\ pc' = "fim"
    /\ UNCHANGED <<arquivo, resultado, emitidos, converterVars, entradaVars>>

Next ==
    \/ \E l \in LinePool : processar_io_passo(l)
    \/ processar_streaming_io_passo
    \/ fim_arquivo

Spec == Init /\ [][Next]_vars

(***************************************************************************)
(* The vocabulary of the properties: what a physical line of the source    *)
(* is, told from the line alone.                                           *)
(***************************************************************************)
\* the line without its line ending
SemTerminador(l) ==
    IF Len(l) >= 2 /\ l[Len(l) - 1] = CR /\ l[Len(l)] = LF THEN SubSeq(l, 1, Len(l) - 2)
    ELSE IF Len(l) >= 1 /\ l[Len(l)] \in {LF, CR} THEN SubSeq(l, 1, Len(l) - 1)
    ELSE l
Branca(l) == SemTerminador(l) = <<>>
Tag(l) == IF Branca(l) THEN <<>> ELSE <<SemTerminador(l)[1]>>
NoveTags == {<<t>> : t \in {"0", "D", "E", "8", "A", "B", "C", "R", "9"}}
Reconhecida(l) == ~Branca(l) /\ Tag(l) \in NoveTags
Desconhecida(l) == ~Branca(l) /\ Tag(l) \notin NoveTags
Decodificada(l) == PARSERS(Tag(l), SemTerminador(l))
Decodifica(l) == Reconhecida(l) /\ Decodificada(l).ok
Falha(l) == Reconhecida(l) /\ ~Decodificada(l).ok
Posicoes(linhas, tags) ==
    {i \in 1..Len(linhas) : ~Branca(linhas[i]) /\ Tag(linhas[i]) \in tags}
ComErro(entradas) == SelectSeq(entradas, LAMBDA e : e.erro # None)
SemErro(entradas) == SelectSeq(entradas, LAMBDA e : e.erro = None)
Primeiros(s, n) == SubSeq(s, 1, IF Len(s) < n THEN Len(s) ELSE n)
\* the steps of the two parsers
PassoAgregado == pc = "agg" /\ pc' # "fim" /\ arquivo' # arquivo
PassoStreaming == pc = "stream" /\ pc' # "stream"

ComoBrancas(linhas) ==
    [i \in 1..Len(linhas) |-> IF Falha(linhas[i]) THEN <<LF>> ELSE linhas[i]]
\* C1: the aggregate parse never raises; when it returns, the lines whose
\* decoder raised are exactly the lines with an entry carrying an error in
\* linhas_nao_processadas, one entry each, and the rest of the resultado is the
\* resultado of the same file with each of those lines replaced by a blank
\* line.
C1_IsolamentoDeFalhas ==
    /\ pc # "excecao"
    /\ pc = "fim" =>
       LET comErro == ComErro(resultado.linhas_nao_processadas)
           falhas == {i \in 1..Len(arquivo) : Falha(arquivo[i])}
           ref == processar_io(ComoBrancas(arquivo))
       IN /\ Len(comErro) = Cardinality(falhas)
          /\ {comErro[k].linha : k \in 1..Len(comErro)} = falhas
          /\ ref.ok
          /\ [resultado EXCEPT !.linhas_nao_processadas = SemErro(@)] = ref.val
\* a header, a recognized line whose decoder raises, a trailer
C1_Witness ==
    /\ pc = "fim"
    /\ Len(arquivo) = 3
    /\ Tag(arquivo[1]) = <<"0">> /\ Falha(arquivo[2]) /\ Tag(arquivo[3]) = <<"9">>
    /\ resultado.header # None
    /\ resultado.trailer # None
    /\ Len(resultado.linhas_nao_processadas) = 1
    /\ resultado.linhas_nao_processadas[1].erro # None

RECURSIVE SomaExata(_, _)
SomaExata(registros, campo) ==
    IF registros = <<>> THEN DecZero
    ELSE DecAddExato(SomaExata(Front(registros), campo), Last(registros)[campo])
C3_TotalLinhas ==
    pc # "excecao" => resultado.estatisticas.total_linhas = Len(arquivo)
\* a blank line, an unknown tag and a line that failed to decode
C3_Witness ==
    /\ pc = "fim"
    /\ resultado.estatisticas.total_linhas = 3
    /\ \E i \in 1..Len(arquivo) : Branca(arquivo[i])
    /\ \E i \in 1..Len(arquivo) : Desconhecida(arquivo[i])
    /\ \E i \in 1..Len(arquivo) : Falha(arquivo[i])

\* C4: the aggregate parser's step on a non-blank line whose first character
\* is none of the nine tags appends one entry to linhas_nao_processadas, with
\* that character as tipo and a null erro, counts the line, and changes
\* nothing else of the resultado.
C4_TagDesconhecida ==
    [][(PassoAgregado /\ Desconhecida(Last(arquivo'))) =>
          /\ pc' = "stream"
          /\ Len(resultado'.linhas_nao_processadas)
                = Len(resultado.linhas_nao_processadas) + 1
          /\ Front(resultado'.linhas_nao_processadas) = resultado.linhas_nao_processadas
          /\ Last(resultado'.linhas_nao_processadas).tipo = Tag(Last(arquivo'))
          /\ Last(resultado'.linhas_nao_processadas).erro = None
          /\ [resultado' EXCEPT !.linhas_nao_processadas = <<>>]
                = [resultado EXCEPT !.linhas_nao_processadas = <<>>,
                                    !.estatisticas.total_linhas = @ + 1]
      ]_vars
\* an unknown tag as the third line, after a header and a record
C4_Witness ==
    /\ pc = "stream"
    /\ Len(arquivo) = 3
    /\ Desconhecida(arquivo[3])
    /\ resultado.header # None
    /\ resultado.estatisticas.total_ur_agenda = 1
    /\ Len(resultado.linhas_nao_processadas) = 1
    /\ resultado.linhas_nao_processadas[1].linha = 3
    /\ resultado.linhas_nao_processadas[1].tipo = <<"X">>

\* C5: the streaming parser's step yields nothing for a blank line and for a
\* line whose tag is none of the nine, and exactly one item for every other
\* line: the decoded record, or a LinhaErro when the decoder raised; the
\* generator goes on to the next line in every case.
C5_StreamingUmPorLinha ==
    [][PassoStreaming =>
          /\ pc' = "agg"
          /\ IF Reconhecida(Last(arquivo))
             THEN /\ Len(emitidos') = Len(emitidos) + 1
                  /\ Front(emitidos') = emitidos
                  /\ Last(emitidos').erro = Falha(Last(arquivo))
                  /\ Decodifica(Last(arquivo)) =>
                        Last(emitidos').val = Decodificada(Last(arquivo)).val
             ELSE emitidos' = emitidos
      ]_vars
\* a line that fails to decode, a line that yields nothing, a line that decodes
C5_Witness ==
    /\ pc = "agg"
    /\ Len(arquivo) = 3
    /\ Falha(arquivo[1])
    /\ Branca(arquivo[2]) \/ Desconhecida(arquivo[2])
    /\ Decodifica(arquivo[3])
    /\ Len(emitidos) = 2
    /\ emitidos[1].erro
    /\ ~emitidos[2].erro

BemFormado(linhas) ==
    /\ Cardinality(Posicoes(linhas, {<<"0">>})) = 1
    /\ Cardinality(Posicoes(linhas, {<<"9">>})) = 1
    /\ \A i \in 1..Len(linhas) : Decodifica(linhas[i])
\* C6: at the end of a file with one header line, one trailer line and only
\* recognized lines that decode, the streaming parser has yielded as many items
\* as 1 (header) + 1 (trailer) + the lengths of the seven lists of the
\* aggregate resultado.
C6_StreamingIgualAgregado ==
    (pc = "fim" /\ BemFormado(arquivo)) =>
        /\ resultado.header # None
        /\ resultado.trailer # None
        /\ Len(emitidos) = 1 + 1 + Len(resultado.ur_agenda) + Len(resultado.detalhes)
                           + Len(resultado.pix) + Len(resultado.negociacoes_resumo)
                           + Len(resultado.negociacoes_detalhe)
                           + Len(resultado.contas_recebimento)
                           + Len(resultado.reserva_financeira)
\* a header, one record and a trailer
C6_Witness ==
    /\ pc = "fim"
    /\ BemFormado(arquivo)
    /\ Len(arquivo) = 3
    /\ Len(emitidos) = 3
    /\ Tag(arquivo[1]) = <<"0">>
    /\ Tag(arquivo[3]) = <<"9">>

DefeitoDeValor(l) ==
    SemTerminador(l) \in {LinhaURAgendaValorLetras, LinhaURAgendaDataInvalida,
                          LinhaPixHoraInvalida}
\* C7 as claimed: a recognized line whose only defect is letters in an amount
\* column, or a date or a time that cannot be parsed, is decoded into a record
\* (amount zero, date or time null) and has no entry in linhas_nao_processadas.
C7_DefeitosDeValorNaoAparecem ==
    /\ pc # "excecao"
    /\ \A i \in 1..Len(arquivo) :
          DefeitoDeValor(arquivo[i]) =>
              /\ \A k \in 1..Len(resultado.linhas_nao_processadas) :
                    resultado.linhas_nao_processadas[k].linha # i
              /\ Decodifica(arquivo[i])
              /\ LET r == Decodificada(arquivo[i]).val
                     corpo == SemTerminador(arquivo[i])
                 IN /\ corpo = LinhaURAgendaValorLetras => DecIsZero(r.valor_bruto)
                    /\ corpo = LinhaURAgendaDataInvalida => r.data_pagamento = None
                    /\ corpo = LinhaPixHoraInvalida => r.hora_transacao = None

EntradaEsperada(n, l) ==
    [linha |-> n, tipo |-> Tag(l), erro |-> <<Decodificada(l).val>>,
     conteudo |-> Primeiros(SemTerminador(l), 100)]
\* C9: when the decoder of a recognized line raises, the entry appended to
\* linhas_nao_processadas, and the LinhaErro the streaming parser yields, has
\* linha = the 1-based position of the line among the physical lines, tipo =
\* its first character, erro = the exception's message (not null), conteudo =
\* the first 100 characters of the line without its line ending.
C9_CamposDaLinhaErro ==
    [][/\ (PassoAgregado /\ Falha(Last(arquivo'))) =>
             /\ pc' = "stream"
             /\ resultado'.linhas_nao_processadas =
                   Append(resultado.linhas_nao_processadas,
                          EntradaEsperada(Len(arquivo'), Last(arquivo')))
       /\ (PassoStreaming /\ Falha(Last(arquivo))) =>
             /\ pc' = "agg"
             /\ emitidos' =
                   Append(emitidos,
                          [erro |-> TRUE,
                           val |-> EntradaEsperada(Len(arquivo), Last(arquivo))])
      ]_vars
\* a blank line, a failing line longer than 100 characters, a shorter one
C9_Witness ==
    /\ pc = "agg"
    /\ Len(arquivo) = 3
    /\ Branca(arquivo[1])
    /\ Falha(arquivo[2]) /\ Len(SemTerminador(arquivo[2])) > 100
    /\ Falha(arquivo[3]) /\ Len(SemTerminador(arquivo[3])) < 100
    /\ Len(resultado.linhas_nao_processadas) = 2
    /\ resultado.linhas_nao_processadas[1].linha = 2
    /\ Len(resultado.linhas_nao_processadas[1].conteudo) = 100
    /\ resultado.linhas_nao_processadas[2].conteudo = SemTerminador(arquivo[3])
    /\ resultado.linhas_nao_processadas[1].erro # None
    /\ emitidos = <<[erro |-> TRUE, val |-> resultado.linhas_nao_processadas[1]],
                    [erro |-> TRUE, val |-> resultado.linhas_nao_processadas[2]]>>

(***************************************************************************)
(* Calls of converter_valor_decimal on its own.  The arguments: every text *)
(* of at most MaxLenValor characters over the digits, blanks, signs and    *)
(* letters of AlfabetoValor, the digit runs whose length is around the     *)
(* context precision, with and without leading zeros, and every scale up   *)
(* to MaxCasas.                                                            *)
(***************************************************************************)
MaxLenValor == 3
MaxCasas == 3
AlfabetoValor == {"0", "1", "5", " ", "X", "-", "+"}
TextosCurtos == UNION {[1..n -> AlfabetoValor] : n \in 0..MaxLenValor}
TextosLongos ==
    {z \o Rep(d, n) \o f : z \in {<<>>, <<"0", "0">>, <<" ">>},
                           d \in {"1", "5", "9"},
                           n \in (PREC - 2)..(PREC + 1),
                           f \in {<<>>, <<"0">>, <<"5">>, <<"6">>}}
Valores == TextosCurtos \cup TextosLongos

InitParserIdle ==
    /\ arquivo = <<>>
    /\ pc = "fim"
    /\ resultado = ResultadoProcessamento
    /\ emitidos = <<>>
InitConversor ==
    /\ InitParserIdle
    /\ InitEntradaIdle
    /\ InitDataIdle
    /\ InitHoraIdle
    /\ InitCampoIdle
    /\ valor \in Valores
    /\ casas_decimais \in 0..MaxCasas
    /\ retorno = None

\* the call converter_valor_decimal(valor, casas_decimais)
chamar_converter_valor_decimal ==
    /\ retorno = None
    /\ retorno' = Some(converter_valor_decimal(valor, casas_decimais))
    /\ UNCHANGED <<parserVars, argVars, entradaVars>>

NextConversor == chamar_converter_valor_decimal

SpecConversor == InitConversor /\ [][NextConversor]_vars

EhNumero(texto) == DecimalOf(texto).ok
\* C8: converter_valor_decimal never raises to its caller: it returns zero for
\* an empty or whitespace-only text and zero for every text that is no number.
C8_NuncaLevanta ==
    retorno # None =>
        /\ retorno[1].ok
        /\ (strip(valor) = <<>> \/ ~EhNumero(valor)) => DecIsZero(retorno[1].val)

SoDigitos(texto) == strip(texto) # <<>> /\ AllDigits(strip(texto))
ValorExato(texto, casas) ==
    [sinal |-> 0, int |-> StripZeros(DigitsOf(strip(texto))), exp |-> 0 - casas]
\* C10 as claimed: for every non-empty text of decimal digits (leading zeros
\* and surrounding whitespace allowed) and every scale, the result is exactly
\* the integer value of the digits divided by 10^scale.
C10_ExatoParaTodoTexto ==
    (retorno # None /\ SoDigitos(valor)) =>
        /\ retorno[1].ok
        /\ DecEq(retorno[1].val, ValorExato(valor, casas_decimais))

\* the significant digits of a digit text: without leading and trailing zeros
Significativos(texto) ==
    LET ds == StripZeros(DigitsOf(strip(texto)))
    IN Len(ds) - TrailingZeros(ds)
\* C10, amended: the same, for the digit texts of at most 28 significant
\* digits (the precision of the decimal context).
C10_ExatoAtePrecisao ==
    (retorno # None /\ SoDigitos(valor) /\ Significativos(valor) <= PREC) =>
        /\ retorno[1].ok
        /\ DecEq(retorno[1].val, ValorExato(valor, casas_decimais))
\* a text of 28 significant digits with leading zeros was converted at scale 2
C10_Witness ==
    /\ retorno # None
    /\ SoDigitos(valor)
    /\ Significativos(valor) = PREC
    /\ Len(strip(valor)) > PREC
    /\ casas_decimais = 2
    /\ retorno[1].ok
    /\ Normalize(retorno[1].val).exp = 0 - 2

(***************************************************************************)
(* Calls of converter_data on its own.  The arguments: every text of at    *)
(* most MaxLenData characters over AlfabetoData; the texts made of a day,  *)
(* a month and a year component in the order of each layout, the           *)
(* components taken around the limits of the calendar, written with        *)
(* digits and with the signs and blanks int() accepts, with and without    *)
(* surrounding blanks; and the three layouts and a layout the converter    *)
(* does not know.                                                          *)
(***************************************************************************)
MaxLenData == 2
AlfabetoData == {"0", "1", " ", "+", "X"}
DatasCurtas == UNION {[1..n -> AlfabetoData] : n \in 0..MaxLenData}
Dias ==
    {ZeroPad(n, 2) : n \in {0, 1, 28, 29, 30, 31, 32}}
        \cup {<<"+", "1">>, <<" ", "1">>, <<"X", "1">>}
Meses == {ZeroPad(n, 2) : n \in {0, 1, 2, 4, 12, 13}} \cup {<<"+", "2">>}
Anos4 ==
    {ZeroPad(n, 4) : n \in {0, 1, 1001, 1900, 2000, 2023, 2024, 9999}}
        \cup {<<"+", "9", "9", "9">>}
Anos2 == {ZeroPad(n, 2) : n \in {0, 23, 24, 99}} \cup {<<"+", "1">>, <<" ", "1">>}
Margens == {<<>>, <<" ">>}
DatasCompostas ==
    {d \o m \o a : d \in Dias, m \in Meses, a \in Anos4}
        \cup {a \o m \o d : d \in Dias, m \in Meses, a \in Anos4}
        \cup {a \o m \o d : d \in Dias, m \in Meses, a \in Anos2}
Datas == DatasCurtas \cup {e \o t \o f : e \in Margens, t \in DatasCompostas, f \in Margens}
Formatos == {"DDMMAAAA", "AAAAMMDD", "AAMMDD", "DDMMAA"}

InitData ==
    /\ InitParserIdle
    /\ InitEntradaIdle
    /\ InitValorIdle
    /\ InitHoraIdle
    /\ InitCampoIdle
    /\ data_str \in Datas
    /\ formato \in Formatos
    /\ retorno = None

\* the call converter_data(data_str, formato)
chamar_converter_data ==
    /\ retorno = None
    /\ retorno' = Some(converter_data(data_str, formato))
    /\ UNCHANGED <<parserVars, argVars, entradaVars>>

NextData == chamar_converter_data

SpecData == InitData /\ [][NextData]_vars

\* The reference of C11.  The components of a date text under a layout, as
\* <<year, month, day>>; none when the length does not fit or the layout is
\* unknown.
ComponentesDaData(t, layout) ==
    IF layout = "DDMMAAAA" /\ Len(t) = 8
    THEN <<SubSeq(t, 5, 8), SubSeq(t, 3, 4), SubSeq(t, 1, 2)>>
    ELSE IF layout = "AAAAMMDD" /\ Len(t) = 8
    THEN <<SubSeq(t, 1, 4), SubSeq(t, 5, 6), SubSeq(t, 7, 8)>>
    ELSE IF layout = "AAMMDD" /\ Len(t) = 6
    THEN <<SubSeq(t, 1, 2), SubSeq(t, 3, 4), SubSeq(t, 5, 6)>>
    ELSE <<>>
SoDigitosNosComponentes(c) == \A i \in 1..Len(c) : AllDigits(c[i])
DiasDoMes == <<31, 28, 31, 30, 31, 30, 31, 31, 30, 31, 30, 31>>
Bissexto(a) == a % 400 = 0 \/ (a % 4 = 0 /\ a % 100 # 0)
DataDoCalendario(a, m, d) ==
    /\ a \in 1..9999
    /\ m \in 1..12
    /\ d \in 1..(DiasDoMes[m] + (IF m = 2 /\ Bissexto(a) THEN 1 ELSE 0))
Sentinelas == {<<>>, Rep("0", 8), <<"0", "1", "0", "1", "1", "0", "0", "1">>}
\* the date of the components c of layout, or null
DataDosComponentes(c, layout) ==
    LET a == NatOf(DigitsOf(c[1])) + (IF layout = "AAMMDD" THEN 2000 ELSE 0)
        m == NatOf(DigitsOf(c[2]))
        d == NatOf(DigitsOf(c[3]))
    IN IF DataDoCalendario(a, m, d) THEN Some([ano |-> a, mes |-> m, dia |-> d])
       ELSE None
ReferenciaData(s, layout) ==
    LET t == strip(s)
        c == ComponentesDaData(t, layout)
    IN IF t \in Sentinelas \/ c = <<>> \/ ~SoDigitosNosComponentes(c) THEN None
       ELSE DataDosComponentes(c, layout)

\* C11: converter_data(s, layout) equals the reference for every text s and
\* every layout: null for a trimmed text that is empty, 00000000 or 01011001,
\* null when the trimmed length does not fit the layout or the layout is
\* unknown, null when the day, month and year read at the positions of the
\* layout are not the numbers of a calendar date, and that date otherwise,
\* the two-digit year yy of AAMMDD being the year 2000 + yy.
C11_IgualAReferencia ==
    retorno # None => retorno[1] = ReferenciaData(data_str, formato)

\* C11 on the texts whose components are decimal digits: the converter
\* equals the reference.
C11_IgualParaDigitos ==
    (retorno # None
        /\ SoDigitosNosComponentes(ComponentesDaData(strip(data_str), formato)))
    => retorno[1] = ReferenciaData(data_str, formato)
\* 29 February of a leap year, written yymmdd with surrounding blanks, was
\* converted to a date of the year 2000 + yy
C11_Witness ==
    /\ retorno # None
    /\ formato = "AAMMDD"
    /\ data_str # strip(data_str)
    /\ retorno[1] = Some([ano |-> 2024, mes |-> 2, dia |-> 29])

(***************************************************************************)
(* Calls of converter_hora on its own.  The arguments: every text of at    *)
(* most MaxLenHora characters over AlfabetoHora; the texts made of an      *)
(* hour, a minute and a second component around the limits of the clock,   *)
(* written with digits and with the signs and blanks int() accepts, with   *)
(* and without surrounding blanks; and digit runs of five and of seven     *)
(* characters.                                                             *)
(***************************************************************************)
MaxLenHora == 3
AlfabetoHora == {"0", "9", " ", "+", "X"}
HorasCurtas == UNION {[1..n -> AlfabetoHora] : n \in 0..MaxLenHora}
HH ==
    {ZeroPad(n, 2) : n \in {0, 12, 23, 24, 99}}
        \cup {<<"+", "1">>, <<"-", "0">>, <<" ", "1">>, <<"1", " ">>, <<"X", "1">>}
MM == {ZeroPad(n, 2) : n \in {0, 34, 59, 60}} \cup {<<"+", "1">>, <<" ", "3">>}
SS == {ZeroPad(n, 2) : n \in {0, 56, 59, 60, 99}} \cup {<<"+", "1">>, <<"-", "1">>}
HorasCompostas == {h \o m \o g : h \in HH, m \in MM, g \in SS}
Horas ==
    HorasCurtas
        \cup {e \o t \o f : e \in Margens, t \in HorasCompostas, f \in Margens}
        \cup {ZeroPad(12345, 5), ZeroPad(1234567, 7)}

InitHora ==
    /\ InitParserIdle
    /\ InitEntradaIdle
    /\ InitValorIdle
    /\ InitDataIdle
    /\ InitCampoIdle
    /\ hora_str \in Horas
    /\ retorno = None

\* the call converter_hora(hora_str)
chamar_converter_hora ==
    /\ retorno = None
    /\ retorno' = Some(converter_hora(hora_str))
    /\ UNCHANGED <<parserVars, argVars, entradaVars>>

NextHora == chamar_converter_hora

SpecHora == InitHora /\ [][NextHora]_vars

\* the time of the six decimal digits HHMMSS of s, or null
ReferenciaHora(s) ==
    IF Len(s) = 6 /\ AllDigits(s)
    THEN LET hh == NatOf(DigitsOf(SubSeq(s, 1, 2)))
             mm == NatOf(DigitsOf(SubSeq(s, 3, 4)))
             ss == NatOf(DigitsOf(SubSeq(s, 5, 6)))
         IN IF hh \in 0..23 /\ mm \in 0..59 /\ ss \in 0..59
            THEN Some([hora |-> hh, minuto |-> mm, segundo |-> ss])
            ELSE None
    ELSE None

\* C12: converter_hora(s) is the time HH:MM:SS when s is exactly six decimal
\* digits HHMMSS with HH in 0..23, MM in 0..59 and SS in 0..59, and null for
\* every other text (another length, a character that is no digit, a
\* component out of range).
C12_SoSeisDigitos ==
    retorno # None => retorno[1] = ReferenciaHora(hora_str)

\* C12 on the texts that are decimal digits once trimmed: the converter
\* equals the reference on the trimmed text.
C12_IgualParaDigitos ==
    (retorno # None /\ AllDigits(strip(hora_str)))
    => retorno[1] = ReferenciaHora(strip(hora_str))
\* a text with a signed component was converted to a time
C12_Witness ==
    /\ retorno # None
    /\ Len(hora_str) = 6
    /\ ~AllDigits(hora_str)
    /\ retorno[1] # None

(***************************************************************************)
(* Calls of the decoders on their own.  CamposDeValor: the amounts that a  *)
(* decoder stores twice, as the Decimal and as the text of the columns.    *)
(* The arguments: the line of each kind with each of its amount columns    *)
(* holding, in turn, zero-padded digits, blanks, digits with leading and   *)
(* with trailing blanks, a signed number, all nines, and texts that are no *)
(* number; and the line of each kind cut at, and up to MaxCorte characters *)
(* into, each of its amount columns.                                       *)
(***************************************************************************)
MaxCorte == 2
CampoDeValor(tag, v, original, col_inicio, col_fim) ==
    [tag |-> tag, valor |-> v, original |-> original,
     inicio |-> col_inicio, fim |-> col_fim]
CamposDeValor ==
    {CampoDeValor(<<"D">>, "valor_bruto", "valor_bruto_original", 73, 85),
     CampoDeValor(<<"D">>, "valor_taxa_administrativa",
                  "valor_taxa_administrativa_original", 87, 99),
     CampoDeValor(<<"D">>, "valor_liquido", "valor_liquido_original", 101, 113),
     CampoDeValor(<<"E">>, "valor_total_venda", "valor_total_venda_original", 248, 260),
     CampoDeValor(<<"E">>, "valor_bruto_venda_parcela", "valor_bruto_original", 262, 274),
     CampoDeValor(<<"E">>, "valor_liquido_venda", "valor_liquido_original", 276, 288),
     CampoDeValor(<<"E">>, "valor_comissao", "valor_comissao_original", 290, 302),
     CampoDeValor(<<"8">>, "valor_bruto", "valor_bruto_original", 75, 87),
     CampoDeValor(<<"8">>, "valor_taxa_administrativa",
                  "valor_taxa_administrativa_original", 89, 101),
     CampoDeValor(<<"8">>, "valor_liquido", "valor_liquido_original", 103, 115),
     CampoDeValor(<<"A">>, "valor_bruto", "valor_bruto_original", 37, 49),
     CampoDeValor(<<"A">>, "valor_liquido", "valor_liquido_original", 51, 63),
     CampoDeValor(<<"B">>, "valor_bruto", "valor_bruto_original", 35, 47),
     CampoDeValor(<<"B">>, "valor_liquido", "valor_liquido_original", 49, 61),
     CampoDeValor(<<"B">>, "valor_desconto", "valor_desconto_original", 128, 140),
     CampoDeValor(<<"C">>, "valor_depositado", "valor_depositado_original", 32, 44),
     CampoDeValor(<<"R">>, "valor_reserva", "valor_reserva_original", 40, 52),
     CampoDeValor(<<"9">>, "valor_liquido_soma", "valor_liquido_soma_original", 14, 30),
     CampoDeValor(<<"9">>, "valor_bruto_soma", "valor_bruto_soma_original", 43, 59),
     CampoDeValor(<<"9">>, "valor_liquido_cedido", "valor_liquido_cedido_original", 61, 77),
     CampoDeValor(<<"9">>, "valor_liquido_gravame", "valor_liquido_gravame_original",
                  79, 95)}
\* a well-formed line of each kind
LinhaDoTipo(tag) ==
    CASE tag = <<"0">> -> LinhaHeader(<<"0", "4">>)
      [] tag = <<"D">> -> LinhaURAgendaValida
      [] tag = <<"E">> -> LinhaDetalhe
      [] tag = <<"8">> -> LinhaPixHoraInvalida
      [] tag = <<"A">> -> LinhaNegociacaoResumo
      [] tag = <<"B">> -> LinhaNegociacaoDetalhe
      [] tag = <<"C">> -> LinhaContaRecebimento(ZeroPad(965000, 13))
      [] tag = <<"R">> -> LinhaReservaFinanceira
      [] tag = <<"9">> -> LinhaTrailer
\* the texts of an amount column of the given width
TextosDeValor(largura) ==
    {ZeroPad(n, largura) : n \in {0, 5, 150, 965000}}
        \cup {Rep(" ", largura), Rep("9", largura),
              Rep(" ", largura - 3) \o ZeroPad(150, 3),
              ZeroPad(150, 3) \o Rep(" ", largura - 3),
              <<"-">> \o ZeroPad(5, largura - 1),
              <<"+">> \o ZeroPad(5, largura - 1),
              ZeroPad(5, largura - 1) \o <<"X">>,
              <<"1", " ">> \o ZeroPad(5, largura - 2)}
\* the line l with texto written from column col on
Sobrescrever(l, col, texto) ==
    SubSeq(l, 1, col - 1) \o texto \o SubSeq(l, col + Len(texto), Len(l))
LinhasDeValor ==
    {LinhaDoTipo(tag) : tag \in PARSERS_keys}
        \cup {Sobrescrever(LinhaDoTipo(c.tag), c.inicio, t) :
                c \in CamposDeValor, t \in TextosDeValor(13)}
        \cup {Sobrescrever(LinhaDoTipo(c.tag), c.inicio, t) :
                c \in {d \in CamposDeValor : d.tag = <<"9">>}, t \in TextosDeValor(17)}
        \cup {SubSeq(LinhaDoTipo(c.tag), 1, c.inicio - 1 + n) :
                c \in CamposDeValor, n \in 0..MaxCorte}

InitParsers ==
    /\ InitParserIdle
    /\ InitEntradaIdle
    /\ InitValorIdle
    /\ InitDataIdle
    /\ InitHoraIdle
    /\ linha \in LinhasDeValor
    /\ inicio = 1
    /\ fim = 1
    /\ retorno = None

\* the call self._parsers[tipo_registro](linha)
chamar_parser ==
    /\ retorno = None
    /\ retorno' = Some(PARSERS(Slice(linha, 0, 1), linha))
    /\ UNCHANGED <<parserVars, argVars, entradaVars>>

NextParsers == chamar_parser

SpecParsers == InitParsers /\ [][NextParsers]_vars

\* the characters of l at the columns a..b, as many as the line has
Colunas(l, a, b) ==
    [i \in 1..((IF b < Len(l) THEN b ELSE Len(l)) - a + 1) |-> l[a + i - 1]]
\* C13: in every record a decoder produces, for every amount that is stored
\* with its *_original text, the *_original field is the trimmed text of the
\* columns of that amount in the line, and converter_valor_decimal of the
\* *_original text at scale 2 is exactly the stored Decimal.
C13_IdaEVolta ==
    (retorno # None /\ retorno[1].ok) =>
        \A c \in CamposDeValor :
            c.tag = <<linha[1]>> =>
                /\ retorno[1].val[c.original] = strip(Colunas(linha, c.inicio, c.fim))
                /\ converter_valor_decimal(retorno[1].val[c.original], 2)
                       = Return(retorno[1].val[c.valor])
\* a C record was decoded from a line whose amount columns hold digits after
\* leading blanks: the stored text is the digits and the amount is 1.5
C13_Witness ==
    /\ retorno # None
    /\ retorno[1].ok
    /\ Len(linha) = 250
    /\ linha[1] = "C"
    /\ linha[32] = " "
    /\ retorno[1].val.valor_depositado_original = ZeroPad(150, 3)
    /\ retorno[1].val.valor_depositado = [sinal |-> 0, int |-> <<1, 5>>, exp |-> 0 - 1]

(***************************************************************************)
(* Calls of processar_string on one text, on one parser or on several, run *)
(* one after the other or interleaved as the threads of a pool run them.   *)
(* Each call has its own StringIO over the text, whose position is         *)
(* numero_linha, and its own local resultado.                              *)
(***************************************************************************)
MaxChamadas == 2
MaxLinhasChamadas == 2
Instancias == {1, 2}
LinhasDasChamadas ==
    {<<LF>>, LinhaHeader(<<"0", "4">>) \o <<LF>>, LinhaURAgendaValida \o <<LF>>,
     LinhaURAgendaValorLetras \o <<LF>>, LinhaDesconhecida \o <<LF>>,
     LinhaTrailer \o <<LF>>}
RECURSIVE Concatenar(_)
Concatenar(ls) == IF ls = <<>> THEN <<>> ELSE Head(ls) \o Concatenar(Tail(ls))
ConteudosDasChamadas ==
    {Concatenar(ls) : ls \in UNION {[1..n -> LinhasDasChamadas] : n \in 0..MaxLinhasChamadas}}

InitChamadas ==
    /\ InitParserIdle
    /\ InitConverterIdle
    /\ chamadas = <<>>
    /\ fonte \in ConteudosDasChamadas
    /\ encoding = "latin-1"

\* parser i is called: processar_string(fonte) creates the StringIO and
\* _processar_io creates its resultado
iniciar_processar_string(i) ==
    /\ Len(chamadas) < MaxChamadas
    /\ chamadas' = Append(chamadas, [instancia |-> i, numero_linha |-> 0,
                                     resultado |-> ResultadoProcessamento,
                                     retornou |-> FALSE])
    /\ UNCHANGED <<parserVars, converterVars, fonte, encoding>>

\* one iteration of the loop of the call c
iterar_processar_io(c) ==
    /\ ~chamadas[c].retornou
    /\ chamadas[c].numero_linha < Len(StringIO(fonte))
    /\ \E r \in {processar_io_linha(chamadas[c].resultado, chamadas[c].numero_linha + 1,
                                    StringIO(fonte)[chamadas[c].numero_linha + 1])} :
          /\ r.ok
          /\ chamadas' = [chamadas EXCEPT ![c].numero_linha = @ + 1,
                                          ![c].resultado = r.val]
    /\ UNCHANGED <<parserVars, converterVars, fonte, encoding>>

\* the StringIO of the call c is exhausted: return resultado
retornar_processar_io(c) ==
    /\ ~chamadas[c].retornou
    /\ chamadas[c].numero_linha = Len(StringIO(fonte))
    /\ chamadas' = [chamadas EXCEPT ![c].retornou = TRUE]
    /\ UNCHANGED <<parserVars, converterVars, fonte, encoding>>

NextChamadas ==
    \/ \E i \in Instancias : iniciar_processar_string(i)
    \/ \E c \in 1..Len(chamadas) : iterar_processar_io(c)
    \/ \E c \in 1..Len(chamadas) : retornar_processar_io(c)

SpecChamadas == InitChamadas /\ [][NextChamadas]_vars

\* res holds what the lines hold and nothing else: the counters, the lists,
\* the sums and the unparsed entries are those of one parse of the lines
SemRestos(res, linhas) ==
    /\ res.estatisticas.total_linhas = Len(linhas)
    /\ Len(res.ur_agenda)
           = Cardinality({i \in Posicoes(linhas, {<<"D">>}) : Decodifica(linhas[i])})
    /\ res.estatisticas.total_ur_agenda = Len(res.ur_agenda)
    /\ DecEq(res.estatisticas.valor_bruto_total, SomaExata(res.ur_agenda, "valor_bruto"))
    /\ DecEq(res.estatisticas.valor_liquido_total,
             SomaExata(res.ur_agenda, "valor_liquido"))
    /\ Len(res.linhas_nao_processadas)
           = Cardinality({i \in 1..Len(linhas) :
                            Falha(linhas[i]) \/ Desconhecida(linhas[i])})
    /\ (res.header = None) = ({i \in Posicoes(linhas, {<<"0">>}) : Decodifica(linhas[i])} = {})
    /\ (res.trailer = None) = ({i \in Posicoes(linhas, {<<"9">>}) : Decodifica(linhas[i])} = {})
\* C14: the calls of processar_string on one text that have returned, on the
\* same parser or on different parsers, returned equal results, and each
\* result holds one parse of the text: no record, counter, sum or unparsed
\* entry of another call is in it.
C14_ParsesIguaisEIndependentes ==
    \A c, d \in 1..Len(chamadas) :
        (chamadas[c].retornou /\ chamadas[d].retornou) =>
            /\ chamadas[c].resultado = chamadas[d].resultado
            /\ SemRestos(chamadas[c].resultado, StringIO(fonte))
\* two calls on the same parser returned, for a text with a D line that decodes
\* and a D line that fails
C14_Witness ==
    /\ Len(chamadas) = 2
    /\ chamadas[1].instancia = chamadas[2].instancia
    /\ chamadas[1].retornou
    /\ chamadas[2].retornou
    /\ Len(chamadas[1].resultado.ur_agenda) = 1
    /\ Len(chamadas[2].resultado.linhas_nao_processadas) = 1
\* two calls on different parsers are under way at different lines of the text
C14_WitnessIntercalado ==
    /\ Len(chamadas) = 2
    /\ chamadas[1].instancia # chamadas[2].instancia
    /\ chamadas[1].numero_linha = 1
    /\ chamadas[2].numero_linha = 2
    /\ ~chamadas[1].retornou

(***************************************************************************)
(* What a step of the aggregate parser changes.                            *)
(***************************************************************************)
\* the fields of resultado and of resultado.estatisticas that the step changed
Mudados ==
    {c \in DOMAIN resultado \ {"estatisticas"} : resultado'[c] # resultado[c]}
        \cup {c \in DOMAIN resultado.estatisticas :
                resultado'.estatisticas[c] # resultado.estatisticas[c]}
\* the list or slot of a tag, its counter if it has one and, for D, the sums
PertenceAoTag(tag) ==
    CASE tag = <<"0">> -> {"header"}
      [] tag = <<"D">> -> {"ur_agenda", "total_ur_agenda", "valor_bruto_total",
                           "valor_liquido_total"}
      [] tag = <<"E">> -> {"detalhes", "total_detalhes"}
      [] tag = <<"8">> -> {"pix", "total_pix"}
      [] tag = <<"A">> -> {"negociacoes_resumo", "total_negociacoes"}
      [] tag = <<"B">> -> {"negociacoes_detalhe"}
      [] tag = <<"C">> -> {"contas_recebimento"}
      [] tag = <<"R">> -> {"reserva_financeira"}
      [] tag = <<"9">> -> {"trailer"}
\* every line of the file is blank or has one of the tags
SoTags(linhas, tags) == \A i \in 1..Len(linhas) : Branca(linhas[i]) \/ Tag(linhas[i]) \in tags
\* a file with only D and E body lines has no record of the kinds 8, A, B, C
\* and R, and a file with only A, B, C and R body lines none of the kinds D, E
\* and 8
ListasExclusivas(linhas, res) ==
    /\ SoTags(linhas, {<<"0">>, <<"D">>, <<"E">>, <<"9">>}) =>
          /\ res.pix = <<>>
          /\ res.negociacoes_resumo = <<>>
          /\ res.negociacoes_detalhe = <<>>
          /\ res.contas_recebimento = <<>>
          /\ res.reserva_financeira = <<>>
    /\ SoTags(linhas, {<<"0">>, <<"A">>, <<"B">>, <<"C">>, <<"R">>, <<"9">>}) =>
          /\ res.ur_agenda = <<>>
          /\ res.detalhes = <<>>
          /\ res.pix = <<>>

LinhaTrailerOutro == Sobrescrever(LinhaTrailer, 2, ZeroPad(7, 11))
LinhasDeCabecalhoETrailer ==
    {<<LF>>,
     LinhaHeader(<<"0", "4">>) \o <<LF>>,
     LinhaHeader(<<"9", "9">>) \o <<LF>>,
     LinhaHeader(<<" ", " ">>) \o <<LF>>,
     LinhaURAgendaValida \o <<LF>>,
     LinhaTrailer \o <<LF>>,
     LinhaTrailerOutro \o <<LF>>,
     LinhaTrailerCurtaInvalida \o <<LF>>}

NextCabecalhoETrailer ==
    \/ \E l \in LinhasDeCabecalhoETrailer : processar_io_passo(l)
    \/ processar_streaming_io_passo
    \/ fim_arquivo

SpecCabecalhoETrailer == Init /\ [][NextCabecalhoETrailer]_vars

\* the last of a non-empty set of positions
Ultima(posicoes) == CHOOSE i \in posicoes : \A j \in posicoes : j <= i
\* the decode of the line, null when its decoder raises
DecodeOuNulo(l) == IF Decodifica(l) THEN Some(Decodificada(l).val) ELSE None
\* tipo_arquivo and tipo_arquivo_descricao follow the header
TipoSegueHeader(res) ==
    IF res.header = None
    THEN res.tipo_arquivo = None /\ res.tipo_arquivo_descricao = None
    ELSE /\ res.tipo_arquivo = Some(res.header[1].opcao_extrato)
         /\ res.tipo_arquivo_descricao
                = Some(TIPOS_ARQUIVO_get(res.header[1].opcao_extrato, "Desconhecido"))

\* C16 as claimed: after an aggregate parse header is the decode of the last
\* 0 line and trailer the decode of the last 9 line of the input, null without
\* such a line; tipo_arquivo is the header's opcao_extrato and
\* tipo_arquivo_descricao its description in the table, or Desconhecido.
C16_UltimaLinhaVence ==
    pc = "fim" =>
        LET zeros == Posicoes(arquivo, {<<"0">>})
            noves == Posicoes(arquivo, {<<"9">>})
        IN /\ resultado.header
                  = (IF zeros = {} THEN None ELSE DecodeOuNulo(arquivo[Ultima(zeros)]))
           /\ resultado.trailer
                  = (IF noves = {} THEN None ELSE DecodeOuNulo(arquivo[Ultima(noves)]))
           /\ TipoSegueHeader(resultado)

\* C16, amended: header is the decode of the last 0 line that decodes and
\* trailer the decode of the last 9 line that decodes, null when no such line
\* decodes; a later line of the tag that fails to decode leaves the stored
\* record in place.  tipo_arquivo and tipo_arquivo_descricao as claimed.
C16_UltimaDecodificadaVence ==
    pc = "fim" =>
        LET zeros == {i \in Posicoes(arquivo, {<<"0">>}) : Decodifica(arquivo[i])}
            noves == {i \in Posicoes(arquivo, {<<"9">>}) : Decodifica(arquivo[i])}
        IN /\ resultado.header
                  = (IF zeros = {} THEN None ELSE Some(Decodificada(arquivo[Ultima(zeros)]).val))
           /\ resultado.trailer
                  = (IF noves = {} THEN None ELSE Some(Decodificada(arquivo[Ultima(noves)]).val))
           /\ TipoSegueHeader(resultado)
\* two headers of different kinds and two different trailers were read: the
\* second header, of a kind that is not in the table, and the second trailer
\* are the ones stored
C16_Witness ==
    /\ pc = "fim"
    /\ Len(arquivo) = 3
    /\ arquivo[1] = LinhaHeader(<<"0", "4">>) \o <<LF>>
    /\ arquivo[2] = LinhaHeader(<<"9", "9">>) \o <<LF>>
    /\ resultado.tipo_arquivo = Some(<<"9", "9">>)
    /\ resultado.tipo_arquivo_descricao = Some("Desconhecido")
\* a trailer that decodes was followed by a trailer that fails, and by the
\* other trailer in another file
C16_WitnessTrailer ==
    /\ pc = "fim"
    /\ arquivo = <<LinhaTrailer \o <<LF>>, LinhaTrailerOutro \o <<LF>>,
                   LinhaTrailerCurtaInvalida \o <<LF>> >>
    /\ resultado.trailer = Some(Decodificada(LinhaTrailerOutro \o <<LF>>).val)

(***************************************************************************)
(* Calls of the entry points of CieloEDIParser.  The source: the lines     *)
(* fonte.linhas, each followed by the line ending fonte.terminador, handed *)
(* over as a str, as bytes, or as the path of a file holding those bytes   *)
(* (or of no file).  One of the lines holds a byte above 127, which        *)
(* decodes under latin-1 and does not under ascii.                         *)
(***************************************************************************)
MaxLinhasEntrada == 2
LinhaHeaderNaoASCII == Sobrescrever(LinhaHeader(<<"0", "4">>), 51, <<BYTE_E9>>)
LinhasDeEntrada ==
    {<<>>, LinhaHeader(<<"0", "4">>), LinhaURAgendaValida, LinhaURAgendaValorLetras,
     LinhaHeaderNaoASCII}
Terminadores == {<<LF>>, <<CR, LF>>, <<CR>>}
Encodings == {"latin-1", "ascii"}
Fontes ==
    {[tipo |-> t, existe |-> e, linhas |-> ls, terminador |-> term] :
        t \in {"str", "bytes", "caminho"}, e \in BOOLEAN,
        ls \in UNION {[1..n -> LinhasDeEntrada] : n \in 0..MaxLinhasEntrada},
        term \in Terminadores}
\* the bytes of the source: each line followed by the line ending
Dados(f) == Concatenar([i \in 1..Len(f.linhas) |-> f.linhas[i] \o f.terminador])
\* the source as a str
Conteudo(f) == decode(Dados(f), "latin-1").val

InitEntrada ==
    /\ InitParserIdle
    /\ InitConverterIdle
    /\ chamadas = <<>>
    /\ fonte \in {f \in Fontes : f.tipo = "caminho" \/ f.existe}
    /\ encoding \in Encodings

\* an entry point was called: the lines its stream will deliver, the exception
\* the stream raises after them, if any, and the locals of the loop
Entrada(nome, linhas, erro) ==
    [entrada |-> nome, linhas |-> linhas, erro |-> erro, numero_linha |-> 0,
     resultado |-> ResultadoProcessamento, itens |-> <<>>,
     estado |-> "executando", exc |-> None]
\* a call that ended with the exception before any stream was there
EntradaFalhou(nome, e) ==
    [Entrada(nome, <<>>, None) EXCEPT !.estado = "excecao", !.exc = Some(e)]
\* open(caminho, "r", encoding=self.encoding) on the bytes of a file.  The
\* stream decodes a block of bytes at a time: when a byte does not decode, the
\* stream has delivered the first n lines, n being at most the number of lines
\* that end before that byte, and then raises.
open(nome, dados, enc, n) ==
    IF decode(dados, enc).ok
    THEN Entrada(nome, linhas_do_texto(universal_newlines(decode(dados, enc).val)), None)
    ELSE Entrada(nome,
                 SubSeq(linhas_completas(universal_newlines(
                            decode(antes_do_erro(dados), enc).val)), 1, n),
                 Some(decode(dados, enc).val))
\* the number of lines that end before the first byte that does not decode
LinhasAntesDoErro(dados, enc) ==
    IF decode(dados, enc).ok THEN 0
    ELSE Len(linhas_completas(universal_newlines(decode(antes_do_erro(dados), enc).val)))

\* parser.processar_string(conteudo): StringIO(conteudo), then _processar_io
chamar_processar_string ==
    /\ chamadas = <<>>
    /\ fonte.tipo = "str"
    /\ chamadas' = <<Entrada("processar_string", StringIO(Conteudo(fonte)), None)>>
    /\ UNCHANGED <<parserVars, converterVars, fonte, encoding>>

\* parser.processar_bytes(dados): dados.decode(self.encoding), then
\* processar_string
chamar_processar_bytes ==
    /\ chamadas = <<>>
    /\ fonte.tipo = "bytes"
    /\ \E conteudo \in {decode(Dados(fonte), encoding)} :
          chamadas' = IF conteudo.ok
                      THEN <<Entrada("processar_bytes", StringIO(conteudo.val), None)>>
                      ELSE <<EntradaFalhou("processar_bytes", conteudo.val)>>
    /\ UNCHANGED <<parserVars, converterVars, fonte, encoding>>

\* parser.processar_arquivo(caminho): open, then _processar_io
chamar_processar_arquivo ==
    /\ chamadas = <<>>
    /\ fonte.tipo = "caminho"
    /\ IF ~fonte.existe
       THEN chamadas' = <<EntradaFalhou("processar_arquivo",
                                        [exc |-> "FileNotFoundError", det |-> <<>>])>>
       ELSE \E n \in 0..LinhasAntesDoErro(Dados(fonte), encoding) :
               chamadas' = <<open("processar_arquivo", Dados(fonte), encoding, n)>>
    /\ UNCHANGED <<parserVars, converterVars, fonte, encoding>>

\* list(parser.processar_streaming(caminho)): open, then
\* _processar_streaming_io
chamar_processar_streaming ==
    /\ chamadas = <<>>
    /\ fonte.tipo = "caminho"
    /\ IF ~fonte.existe
       THEN chamadas' = <<EntradaFalhou("processar_streaming",
                                        [exc |-> "FileNotFoundError", det |-> <<>>])>>
       ELSE \E n \in 0..LinhasAntesDoErro(Dados(fonte), encoding) :
               chamadas' = <<open("processar_streaming", Dados(fonte), encoding, n)>>
    /\ UNCHANGED <<parserVars, converterVars, fonte, encoding>>

\* the stream of the call delivers its next line
Executando(c) ==
    /\ c \in 1..Len(chamadas)
    /\ chamadas[c].estado = "executando"
    /\ chamadas[c].numero_linha < Len(chamadas[c].linhas)

\* one iteration of the loop of _processar_io
iterar_io(c) ==
    /\ Executando(c)
    /\ chamadas[c].entrada # "processar_streaming"
    /\ \E r \in {processar_io_linha(chamadas[c].resultado, chamadas[c].numero_linha + 1,
                                    chamadas[c].linhas[chamadas[c].numero_linha + 1])} :
          chamadas' = IF r.ok
                      THEN [chamadas EXCEPT ![c].numero_linha = @ + 1,
                                            ![c].resultado = r.val]
                      ELSE [chamadas EXCEPT ![c].estado = "excecao",
                                            ![c].exc = Some(r.val)]
    /\ UNCHANGED <<parserVars, converterVars, fonte, encoding>>

\* one iteration of the loop of _processar_streaming_io
iterar_streaming_io(c) ==
    /\ Executando(c)
    /\ chamadas[c].entrada = "processar_streaming"
    /\ \E r \in {processar_streaming_io_linha(
                     chamadas[c].numero_linha + 1,
                     chamadas[c].linhas[chamadas[c].numero_linha + 1])} :
          chamadas' = IF r.ok
                      THEN [chamadas EXCEPT ![c].numero_linha = @ + 1,
                                            ![c].itens = @ \o r.val]
                      ELSE [chamadas EXCEPT ![c].estado = "excecao",
                                            ![c].exc = Some(r.val)]
    /\ UNCHANGED <<parserVars, converterVars, fonte, encoding>>

\* the stream is exhausted: return resultado, or the generator ends
retornar(c) ==
    /\ c \in 1..Len(chamadas)
    /\ chamadas[c].estado = "executando"
    /\ chamadas[c].numero_linha = Len(chamadas[c].linhas)
    /\ chamadas[c].erro = None
    /\ chamadas' = [chamadas EXCEPT ![c].estado = "retornou"]
    /\ UNCHANGED <<parserVars, converterVars, fonte, encoding>>

\* the stream raises in the for statement, outside the try statement of the
\* loop body: the exception leaves the call
propagar(c) ==
    /\ c \in 1..Len(chamadas)
    /\ chamadas[c].estado = "executando"
    /\ chamadas[c].numero_linha = Len(chamadas[c].linhas)
    /\ chamadas[c].erro # None
    /\ chamadas' = [chamadas EXCEPT ![c].estado = "excecao", ![c].exc = chamadas[c].erro]
    /\ UNCHANGED <<parserVars, converterVars, fonte, encoding>>

NextEntrada ==
    \/ chamar_processar_string
    \/ chamar_processar_bytes
    \/ chamar_processar_arquivo
    \/ chamar_processar_streaming
    \/ iterar_io(1)
    \/ iterar_streaming_io(1)
    \/ retornar(1)
    \/ propagar(1)

SpecEntrada == InitEntrada /\ [][NextEntrada]_vars

\* the bytes decode under the encoding
Decodificavel(dados, enc) == enc = "latin-1" \/ \A i \in 1..Len(dados) : dados[i] # BYTE_E9
\* the source can be opened and decoded
Legivel(f, enc) ==
    /\ f.tipo = "caminho" => f.existe
    /\ f.tipo # "str" => Decodificavel(Dados(f), enc)
\* the call has ended
Terminou == chamadas # <<>> /\ chamadas[1].estado # "executando"
\* what the caller of an aggregate entry point gets
Desfecho(c) == IF c.estado = "retornou" THEN Return(c.resultado) ELSE Raise(c.exc[1])
\* what the caller of list(processar_streaming(..)) has seen
DesfechoStreaming(c) == [itens |-> c.itens, exc |-> c.exc]
\* the lines of the source as text, each ended by LF
LinhasComLF(f) ==
    [i \in 1..Len(f.linhas) |-> decode(f.linhas[i], "latin-1").val \o <<LF>>]
\* the outcome of the call is that of the lines of the source ended by LF
ComoComLF ==
    IF chamadas[1].entrada = "processar_streaming"
    THEN DesfechoStreaming(chamadas[1]) = processar_streaming_io(LinhasComLF(fonte))
    ELSE Desfecho(chamadas[1]) = processar_io(LinhasComLF(fonte))

\* C17: through every entry point, the lines of a source ended by LF, by CR LF
\* or by CR alone give the result that the same lines ended by LF give: the
\* same records, the same total_linhas, the same unparsed entries.
C17_QualquerTerminador ==
    (Terminou /\ Legivel(fonte, encoding)) => ComoComLF

\* C17 where it holds: lines ended by LF or by CR LF through every entry
\* point, and lines ended by CR alone through the entry points that open the
\* file themselves.
C17_TerminadoresTraduzidos ==
    (Terminou /\ Legivel(fonte, encoding)
        /\ (fonte.terminador # <<CR>> \/ fonte.tipo = "caminho")) => ComoComLF
\* processar_string returned for two lines ended by CR alone: it counted one line
C17_Witness ==
    /\ Terminou
    /\ chamadas[1].entrada = "processar_string"
    /\ fonte.terminador = <<CR>>
    /\ Len(fonte.linhas) = 2
    /\ chamadas[1].estado = "retornou"
    /\ chamadas[1].resultado.estatisticas.total_linhas = 1

\* the source cannot be opened or decoded
Fatal(f, enc) == ~Legivel(f, enc)
ErrosFatais == {"FileNotFoundError", "UnicodeDecodeError"}
\* C18: when the file is not there, or the bytes or the file do not decode,
\* the call never returns a ResultadoProcessamento, not even one of the lines
\* read before the error: it ends with that exception, and so does the
\* generator of processar_streaming.
C18_ErrosFataisPropagam ==
    (chamadas # <<>> /\ Fatal(fonte, encoding)) =>
        /\ chamadas[1].estado # "retornou"
        /\ Terminou => /\ chamadas[1].estado = "excecao"
                       /\ chamadas[1].exc[1].exc \in ErrosFatais
\* processar_arquivo read the first line of a file, a D line that decodes,
\* and ended with the exception of the bytes of the second
C18_Witness ==
    /\ Terminou
    /\ chamadas[1].entrada = "processar_arquivo"
    /\ encoding = "ascii"
    /\ fonte.linhas = <<LinhaURAgendaValida, LinhaHeaderNaoASCII>>
    /\ chamadas[1].numero_linha = 1
    /\ Len(chamadas[1].resultado.ur_agenda) = 1
    /\ chamadas[1].estado = "excecao"
\* processar_bytes ended with the exception of bytes that do not decode
C18_WitnessBytes ==
    /\ Terminou
    /\ chamadas[1].entrada = "processar_bytes"
    /\ fonte.linhas = <<LinhaURAgendaValida, LinhaHeaderNaoASCII>>
    /\ chamadas[1].estado = "excecao"
    /\ chamadas[1].exc[1].exc = "UnicodeDecodeError"
\* the generator yielded the record of the first line of a file and then
\* raised on the bytes of the second
C18_WitnessStreaming ==
    /\ Terminou
    /\ chamadas[1].entrada = "processar_streaming"
    /\ Len(chamadas[1].itens) = 1
    /\ chamadas[1].estado = "excecao"

(***************************************************************************)
(* Aggregate parses of lines whose sign columns hold '+' or '-'.  The      *)
(* sign columns of each kind of line, with the field that stores each, and *)
(* the lines read: a well-formed line of each kind with '+' in every sign  *)
(* column, and the D and C lines with '-' in one of them.                  *)
(***************************************************************************)
CampoDeSinal(tag, sinal, coluna) == [tag |-> tag, sinal |-> sinal, coluna |-> coluna]
CamposDeSinal ==
    {CampoDeSinal(<<"D">>, "sinal_valor_bruto", 72),
     CampoDeSinal(<<"D">>, "sinal_taxa_administrativa", 86),
     CampoDeSinal(<<"D">>, "sinal_valor_liquido", 100),
     CampoDeSinal(<<"E">>, "sinal_valor_total_venda", 247),
     CampoDeSinal(<<"E">>, "sinal_valor_bruto", 261),
     CampoDeSinal(<<"E">>, "sinal_valor_liquido", 275),
     CampoDeSinal(<<"E">>, "sinal_valor_comissao", 289),
     CampoDeSinal(<<"8">>, "sinal_valor_bruto", 74),
     CampoDeSinal(<<"8">>, "sinal_taxa_administrativa", 88),
     CampoDeSinal(<<"8">>, "sinal_valor_liquido", 102),
     CampoDeSinal(<<"A">>, "sinal_valor_bruto", 36),
     CampoDeSinal(<<"A">>, "sinal_valor_liquido", 50),
     CampoDeSinal(<<"B">>, "sinal_valor_bruto", 34),
     CampoDeSinal(<<"B">>, "sinal_valor_liquido", 48),
     CampoDeSinal(<<"B">>, "sinal_valor_desconto", 127),
     CampoDeSinal(<<"C">>, "sinal_valor_depositado", 31),
     CampoDeSinal(<<"R">>, "sinal_valor_reserva", 39),
     CampoDeSinal(<<"9">>, "sinal_valor_liquido", 13),
     CampoDeSinal(<<"9">>, "sinal_valor_bruto", 42),
     CampoDeSinal(<<"9">>, "sinal_valor_liquido_cedido", 60),
     CampoDeSinal(<<"9">>, "sinal_valor_liquido_gravame", 78)}
TagsComSinal == {c.tag : c \in CamposDeSinal}
\* the well-formed line of the kind with '+' in every sign column
LinhaPositiva(tag) ==
    [i \in 1..Len(LinhaDoTipo(tag)) |->
        IF \E c \in CamposDeSinal : c.tag = tag /\ c.coluna = i
        THEN "+" ELSE LinhaDoTipo(tag)[i]]
LinhasDeSinal ==
    {LinhaPositiva(tag) \o <<LF>> : tag \in TagsComSinal}
        \cup {Sobrescrever(LinhaPositiva(c.tag), c.coluna, <<"-">>) \o <<LF>> :
                c \in {d \in CamposDeSinal : d.tag \in {<<"D">>, <<"C">>}}}

NextSinais ==
    \/ \E l \in LinhasDeSinal : processar_io_passo(l)
    \/ processar_streaming_io_passo
    \/ fim_arquivo

SpecSinais == Init /\ [][NextSinais]_vars

\* the other sign
Trocar(s) == IF s = "+" THEN "-" ELSE "+"
\* the lines with the sign in column coluna of line i replaced by the other
ComSinalTrocado(linhas, i, coluna) ==
    [linhas EXCEPT ![i] = Sobrescrever(@, coluna, <<Trocar(@[coluna])>>)]

\* C19: a line and the line that differs from it only in one sign column
\* decode to records that differ only in the sinal_* field of that column, so
\* every Decimal amount is the same; and the aggregate parse of a file gives
\* the same Estatisticas whichever sign the column holds, the sums
\* valor_bruto_total and valor_liquido_total being sums of magnitudes.
C19_SinalEMagnitudeIndependentes ==
    pc = "fim" =>
        /\ resultado.estatisticas.valor_bruto_total.sinal = 0
        /\ resultado.estatisticas.valor_liquido_total.sinal = 0
        /\ \A i \in 1..Len(arquivo) : \A c \in CamposDeSinal :
              c.tag = Tag(arquivo[i]) =>
                  LET outro == ComSinalTrocado(arquivo, i, c.coluna)
                      r == processar_io(outro)
                      d == Decodificada(arquivo[i])
                      e == Decodificada(outro[i])
                  IN /\ d.ok /\ e.ok
                     /\ d.val[c.sinal] = <<arquivo[i][c.coluna]>>
                     /\ e.val = [d.val EXCEPT ![c.sinal] = <<Trocar(arquivo[i][c.coluna])>>]
                     /\ r.ok
                     /\ r.val.estatisticas = resultado.estatisticas
\* a file of two D lines was parsed, the second with '-' in the sign column
\* of valor_bruto: the sum is 1000.00 + 1000.00
C19_Witness ==
    /\ pc = "fim"
    /\ arquivo = <<LinhaPositiva(<<"D">>) \o <<LF>>,
                   Sobrescrever(LinhaPositiva(<<"D">>), 72, <<"-">>) \o <<LF>> >>
    /\ resultado.ur_agenda[2].sinal_valor_bruto = <<"-">>
    /\ resultado.ur_agenda[2].valor_bruto = resultado.ur_agenda[1].valor_bruto
    /\ resultado.estatisticas.valor_bruto_total
           = DecAdd(resultado.ur_agenda[1].valor_bruto, resultado.ur_agenda[1].valor_bruto)
    /\ ~DecIsZero(resultado.estatisticas.valor_bruto_total)

(***************************************************************************)
(* Calls of extrair_campo on short lines of letters and blanks, with the   *)
(* bounds inside the line, at its end and past it, and in either order.    *)
(***************************************************************************)
MaxLenCampo == 4
MaxPosicao == 5
AlfabetoCampo == {"a", "b", " "}
LinhasDeCampo == UNION {[1..n -> AlfabetoCampo] : n \in 0..MaxLenCampo}
Posicoes1 == 1..MaxPosicao

InitCampo ==
    /\ InitParserIdle
    /\ InitEntradaIdle
    /\ InitValorIdle
    /\ InitDataIdle
    /\ InitHoraIdle
    /\ linha \in LinhasDeCampo
    /\ inicio \in Posicoes1
    /\ fim \in Posicoes1
    /\ retorno = None

\* the call extrair_campo(linha, inicio, fim)
chamar_extrair_campo ==
    /\ retorno = None
    /\ retorno' = Some(extrair_campo(linha, inicio, fim))
    /\ UNCHANGED <<parserVars, argVars, entradaVars>>

NextCampo == chamar_extrair_campo

SpecCampo == InitCampo /\ [][NextCampo]_vars

\* every character of s is whitespace
SoEspacos(s) == \A i \in 1..Len(s) : s[i] \in Whitespace
\* r is s without the whitespace around it
SemEspacosEmVolta(r, s) ==
    /\ r # <<>> => r[1] \notin Whitespace /\ r[Len(r)] \notin Whitespace
    /\ \E antes, depois \in 0..Len(s) :
          /\ antes + Len(r) + depois = Len(s)
          /\ SoEspacos(SubSeq(s, 1, antes))
          /\ r = SubSeq(s, antes + 1, antes + Len(r))
          /\ SoEspacos(SubSeq(s, antes + Len(r) + 1, Len(s)))

\* C20: extrair_campo(linha, inicio, fim) is the characters of the line at
\* the positions inicio..fim, counted from 1 and both included, without the
\* whitespace around them; positions past the end of the line contribute
\* nothing, so the result is the shorter text when fim is past the end and
\* the empty text when inicio is.
C20_ColunasSemEspacos ==
    retorno # None =>
        /\ SemEspacosEmVolta(retorno[1], Colunas(linha, inicio, fim))
        /\ fim > Len(linha) =>
               SemEspacosEmVolta(retorno[1], Colunas(linha, inicio, Len(linha)))
        /\ inicio > Len(linha) => retorno[1] = <<>>
\* the field was taken from a line shorter than fim, blanks on both sides
C20_Witness ==
    /\ retorno # None
    /\ linha = <<" ", "a", "b", " ">>
    /\ inicio = 1
    /\ fim = 5
    /\ retorno[1] = <<"a", "b">>
\* inicio is past the end of the line
C20_WitnessAlemDoFim ==
    /\ retorno # None
    /\ linha = <<"a", "b">>
    /\ inicio = 3
    /\ fim = 5
    /\ retorno[1] = <<>>

(***************************************************************************)
(* Assignments to the fields of a decoded record: a well-formed line of    *)
(* each kind is decoded, and then texts are assigned to tipo_registro and  *)
(* to text fields of the record.  chamadas is the log of the assignments   *)
(* and of the exception each one raised.                                   *)
(***************************************************************************)
MaxAtribuicoes == 2
\* the text fields assigned, besides tipo_registro: opcao_extrato of a header
\* and the sinal_* fields of the other records
CamposAtribuidos(tag) ==
    {"tipo_registro"}
        \cup (IF tag = <<"0">> THEN {"opcao_extrato"} ELSE {})
        \cup {c.sinal : c \in {d \in CamposDeSinal : d.tag = tag}}
ValoresAtribuidos == {<<"E">>, <<"8">>, <<"-">>, <<" ", "0", " ">>, <<"X", "X", "X">>}

InitAtribuicao ==
    /\ InitParserIdle
    /\ InitEntradaIdle
    /\ InitValorIdle
    /\ InitDataIdle
    /\ InitHoraIdle
    /\ linha \in {LinhaDoTipo(tag) : tag \in PARSERS_keys}
    /\ inicio = 1
    /\ fim = 1
    /\ retorno = None

\* registro.campo = valor, on the record that the decoder returned
atribuir(campo, texto) ==
    /\ retorno # None
    /\ retorno[1].ok
    /\ Len(chamadas) < MaxAtribuicoes
    /\ campo \in CamposAtribuidos(Slice(linha, 0, 1))
    /\ \E r \in {setattr(Slice(linha, 0, 1), retorno[1].val, campo, texto)} :
          /\ retorno' = IF r.ok THEN Some(r) ELSE retorno
          /\ chamadas' = Append(chamadas, [campo |-> campo, valor |-> texto,
                                           exc |-> IF r.ok THEN None ELSE Some(r.val)])
    /\ UNCHANGED <<parserVars, argVars, fonte, encoding>>

NextAtribuicao ==
    \/ chamar_parser
    \/ \E campo \in UNION {CamposAtribuidos(tag) : tag \in PARSERS_keys},
          texto \in ValoresAtribuidos : atribuir(campo, texto)

SpecAtribuicao == InitAtribuicao /\ [][NextAtribuicao]_vars

\* C21: every assignment to tipo_registro of a constructed record raised
\* ValidationError, and the record's tipo_registro is the one it was
\* constructed with, the tag of its line.
C21_TagFixoNaConstrucao ==
    (retorno # None /\ retorno[1].ok) =>
        /\ retorno[1].val.tipo_registro = <<linha[1]>>
        /\ \A i \in 1..Len(chamadas) :
              chamadas[i].campo = "tipo_registro" =>
                  /\ chamadas[i].exc # None
                  /\ chamadas[i].exc[1].exc = "ValidationError"
\* on a Pix record, the assignment of "-" to sinal_valor_bruto went through
\* and the assignment of "E" to tipo_registro raised
C21_Witness ==
    /\ retorno # None
    /\ linha[1] = "8"
    /\ Len(chamadas) = 2
    /\ chamadas[1] = [campo |-> "sinal_valor_bruto", valor |-> <<"-">>, exc |-> None]
    /\ chamadas[2].campo = "tipo_registro"
    /\ chamadas[2].valor = <<"E">>
    /\ chamadas[2].exc # None
    /\ retorno[1].val.sinal_valor_bruto = <<"-">>
    /\ retorno[1].val.tipo_registro = <<"8">>

(***************************************************************************)
(* Aggregate parses of the lines of the four kinds that have a counter: a  *)
(* line of each kind that decodes and one with letters in an amount        *)
(* column, whose decoder raises, and a blank line.                         *)
(***************************************************************************)
TagsComContador == {<<"D">>, <<"E">>, <<"8">>, <<"A">>}
\* the line of the kind with letters in its first amount column
LinhaQueFalha(tag) ==
    Sobrescrever(LinhaDoTipo(tag),
                 (CHOOSE c \in CamposDeValor :
                     c.tag = tag /\ \A d \in CamposDeValor :
                                       d.tag = tag => c.inicio <= d.inicio).inicio,
                 Letras(13))
LinhasDeContadores ==
    {<<LF>>} \cup {LinhaDoTipo(tag) \o <<LF>> : tag \in TagsComContador}
             \cup {LinhaQueFalha(tag) \o <<LF>> : tag \in TagsComContador}

NextContadores ==
    \/ \E l \in LinhasDeContadores : processar_io_passo(l)
    \/ processar_streaming_io_passo
    \/ fim_arquivo

SpecContadores == Init /\ [][NextContadores]_vars

\* the number of lines of the tag that decode
Decodificam(linhas, tag) ==
    Cardinality({i \in Posicoes(linhas, {tag}) : Decodifica(linhas[i])})

\* C22: in every state of the aggregate parser, after any prefix of the
\* input, each of the four counters equals the length of its list, and both
\* equal the number of lines of the kind read so far that decoded: a line
\* that failed to decode is in neither.
C22_ContadoresIguaisAsListas ==
    LET e == resultado.estatisticas
    IN /\ e.total_ur_agenda = Len(resultado.ur_agenda)
       /\ e.total_detalhes = Len(resultado.detalhes)
       /\ e.total_pix = Len(resultado.pix)
       /\ e.total_negociacoes = Len(resultado.negociacoes_resumo)
       /\ Len(resultado.ur_agenda) = Decodificam(arquivo, <<"D">>)
       /\ Len(resultado.detalhes) = Decodificam(arquivo, <<"E">>)
       /\ Len(resultado.pix) = Decodificam(arquivo, <<"8">>)
       /\ Len(resultado.negociacoes_resumo) = Decodificam(arquivo, <<"A">>)
\* in the middle of a file: an E line that decoded, an E line that failed and
\* a Pix line that failed have been read
C22_Witness ==
    /\ pc = "agg"
    /\ Len(arquivo) = 3
    /\ Decodifica(arquivo[1]) /\ Tag(arquivo[1]) = <<"E">>
    /\ Falha(arquivo[2]) /\ Tag(arquivo[2]) = <<"E">>
    /\ Falha(arquivo[3]) /\ Tag(arquivo[3]) = <<"8">>
    /\ resultado.estatisticas.total_detalhes = 1
    /\ resultado.estatisticas.total_pix = 0
    /\ Len(resultado.linhas_nao_processadas) = 2

(***************************************************************************)
(* Aggregate parses of D lines whose amount columns hold digits, or a      *)
(* minus sign and digits, among lines of the other counted kinds.          *)
(***************************************************************************)
\* a D line with "-000000000005" in the columns of valor_bruto, and one with
\* it in the columns of valor_liquido
LinhaURAgendaBrutoNegativo ==
    Sobrescrever(LinhaURAgendaValida, 73, <<"-">> \o ZeroPad(5, 12))
LinhaURAgendaLiquidoNegativo ==
    Sobrescrever(LinhaURAgendaValida, 101, <<"-">> \o ZeroPad(5, 12))
LinhasDeMonotonia ==
    {<<LF>>, LinhaURAgendaValida \o <<LF>>, LinhaURAgendaValorLetras \o <<LF>>,
     LinhaURAgendaBrutoNegativo \o <<LF>>, LinhaURAgendaLiquidoNegativo \o <<LF>>,
     LinhaDetalhe \o <<LF>>, LinhaPixHoraInvalida \o <<LF>>,
     LinhaNegociacaoResumo \o <<LF>>, LinhaDesconhecida \o <<LF>>}

NextMonotonia ==
    \/ \E l \in LinhasDeMonotonia : processar_io_passo(l)
    \/ processar_streaming_io_passo
    \/ fim_arquivo

SpecMonotonia == Init /\ [][NextMonotonia]_vars

\* the counters of Estatisticas
Contadores ==
    {"total_linhas", "total_ur_agenda", "total_detalhes", "total_pix", "total_negociacoes"}
\* no counter is smaller in e2 than in e1
ContadoresNaoDecrescem(e1, e2) == \A c \in Contadores : e2[c] >= e1[c]
\* neither sum is smaller in e2 than in e1
SomasNaoDecrescem(e1, e2) ==
    /\ ~DecLess(e2.valor_bruto_total, e1.valor_bruto_total)
    /\ ~DecLess(e2.valor_liquido_total, e1.valor_liquido_total)
\* the amount columns of the line that feed the sums hold no minus sign
SemMenosNasSomas(l) ==
    Tag(l) = <<"D">> => \A i \in (73..85) \cup (101..113) : i <= Len(l) => l[i] # "-"

\* C23: from one processed line to the next no field of Estatisticas
\* decreases: not the five counters, not valor_bruto_total, not
\* valor_liquido_total.
C23_EstatisticasMonotonas ==
    [][PassoAgregado =>
          /\ ContadoresNaoDecrescem(resultado.estatisticas, resultado'.estatisticas)
          /\ SomasNaoDecrescem(resultado.estatisticas, resultado'.estatisticas)]_vars

\* C23 where it holds: the counters never decrease, and the sums do not
\* decrease on a line whose amount columns hold no minus sign.
C23_MonotonasSemMenos ==
    [][PassoAgregado =>
          /\ ContadoresNaoDecrescem(resultado.estatisticas, resultado'.estatisticas)
          /\ SemMenosNasSomas(Last(arquivo')) =>
                SomasNaoDecrescem(resultado.estatisticas, resultado'.estatisticas)]_vars
\* after a D line of 1000.00 and a D line with "-000000000005" in the columns
\* of valor_bruto, valor_bruto_total is below 1000.00
C23_Witness ==
    /\ pc = "fim"
    /\ arquivo = <<LinhaURAgendaValida \o <<LF>>, LinhaURAgendaBrutoNegativo \o <<LF>> >>
    /\ Len(resultado.ur_agenda) = 2
    /\ resultado.ur_agenda[2].valor_bruto.sinal = 1
    /\ DecLess(resultado.estatisticas.valor_bruto_total, resultado.ur_agenda[1].valor_bruto)

(***************************************************************************)
(* Aggregate and streaming parses of one short line: every prefix, down to *)
(* the tag character alone, of a well-formed line of each of the nine      *)
(* kinds.                                                                  *)
(***************************************************************************)
LinhasCurtas ==
    UNION {{SubSeq(LinhaDoTipo(tag), 1, n) : n \in 1..Len(LinhaDoTipo(tag))} :
              tag \in PARSERS_keys}

InitCurtas ==
    /\ InitParser
    /\ InitEntradaIdle
    /\ InitValorIdle
    /\ InitDataIdle
    /\ InitHoraIdle
    /\ linha \in LinhasCurtas
    /\ inicio = 1
    /\ fim = 1
    /\ retorno = None

\* the file holds the one line
processar_linha_curta == arquivo = <<>> /\ processar_io_passo(linha \o <<LF>>)

NextCurtas ==
    \/ processar_linha_curta
    \/ processar_streaming_io_passo
    \/ fim_arquivo

SpecCurtas == InitCurtas /\ [][NextCurtas]_vars

\* where the aggregate parser keeps the records of a tag: the slot or the list
Guardados(res, tag) ==
    CASE tag = <<"0">> -> res.header
      [] tag = <<"D">> -> res.ur_agenda
      [] tag = <<"E">> -> res.detalhes
      [] tag = <<"8">> -> res.pix
      [] tag = <<"A">> -> res.negociacoes_resumo
      [] tag = <<"B">> -> res.negociacoes_detalhe
      [] tag = <<"C">> -> res.contas_recebimento
      [] tag = <<"R">> -> res.reserva_financeira
      [] tag = <<"9">> -> res.trailer
\* the value of a field whose columns the line does not have: the empty text
\* or null, the int 0, the Decimal 0
Vazio(v) == v = <<>> \/ v = IntZero \/ v = DecZero

C24_WitnessCorte ==
    /\ pc = "fim"
    /\ linha = SubSeq(LinhaURAgendaValida, 1, 80)
    /\ Len(resultado.ur_agenda) = 1
    /\ resultado.ur_agenda[1].valor_liquido = DecZero

(***************************************************************************)
(* The scale of every Decimal field: the decoders called on well-formed    *)
(* lines whose Decimal columns hold digit texts that read differently at   *)
(* scale 2 and at scale 3.                                                 *)
(***************************************************************************)
CampoDecimal(tag, campo, col_inicio, col_fim, especie) ==
    [tag |-> tag, campo |-> campo, inicio |-> col_inicio, fim |-> col_fim,
     especie |-> especie]
\* every converter_valor_decimal call of the decoders: the field it fills,
\* the columns it reads, and the kind of the field (currency amount or
\* rate/fee percentage)
CamposDecimais ==
    {CampoDecimal(<<"D">>, "valor_bruto", 73, 85, "moeda"),
     CampoDecimal(<<"D">>, "valor_taxa_administrativa", 87, 99, "moeda"),
     CampoDecimal(<<"D">>, "valor_liquido", 101, 113, "moeda"),
     CampoDecimal(<<"E">>, "taxa_mdr", 232, 236, "taxa"),
     CampoDecimal(<<"E">>, "taxa_recebimento_automatico", 237, 241, "taxa"),
     CampoDecimal(<<"E">>, "taxa_venda", 242, 246, "taxa"),
     CampoDecimal(<<"E">>, "valor_total_venda", 248, 260, "moeda"),
     CampoDecimal(<<"E">>, "valor_bruto_venda_parcela", 262, 274, "moeda"),
     CampoDecimal(<<"E">>, "valor_liquido_venda", 276, 288, "moeda"),
     CampoDecimal(<<"E">>, "valor_comissao", 290, 302, "moeda"),
     CampoDecimal(<<"8">>, "valor_bruto", 75, 87, "moeda"),
     CampoDecimal(<<"8">>, "valor_taxa_administrativa", 89, 101, "moeda"),
     CampoDecimal(<<"8">>, "valor_liquido", 103, 115, "moeda"),
     CampoDecimal(<<"8">>, "taxa_administrativa", 151, 155, "taxa"),
     CampoDecimal(<<"8">>, "tarifa_administrativa", 156, 159, "moeda"),
     CampoDecimal(<<"A">>, "taxa_nominal", 31, 35, "taxa"),
     CampoDecimal(<<"A">>, "valor_bruto", 37, 49, "moeda"),
     CampoDecimal(<<"A">>, "valor_liquido", 51, 63, "moeda"),
     CampoDecimal(<<"A">>, "taxa_efetiva_negociacao", 87, 91, "taxa"),
     CampoDecimal(<<"B">>, "valor_bruto", 35, 47, "moeda"),
     CampoDecimal(<<"B">>, "valor_liquido", 49, 61, "moeda"),
     CampoDecimal(<<"B">>, "taxa_efetiva", 62, 66, "taxa"),
     CampoDecimal(<<"B">>, "valor_desconto", 128, 140, "moeda"),
     CampoDecimal(<<"C">>, "valor_depositado", 32, 44, "moeda"),
     CampoDecimal(<<"R">>, "valor_reserva", 40, 52, "moeda"),
     CampoDecimal(<<"9">>, "valor_liquido_soma", 14, 30, "moeda"),
     CampoDecimal(<<"9">>, "valor_bruto_soma", 43, 59, "moeda"),
     CampoDecimal(<<"9">>, "valor_liquido_cedido", 61, 77, "moeda"),
     CampoDecimal(<<"9">>, "valor_liquido_gravame", 79, 95, "moeda")}
\* digit values written into a Decimal field
NumerosDeEscala == {1, 100, 1234, 9999}
LinhasDeEscala ==
    {Sobrescrever(LinhaDoTipo(c.tag), c.inicio, ZeroPad(n, c.fim - c.inicio + 1)) :
        c \in CamposDecimais, n \in NumerosDeEscala}

InitEscalas ==
    /\ InitParserIdle
    /\ InitEntradaIdle
    /\ InitValorIdle
    /\ InitDataIdle
    /\ InitHoraIdle
    /\ linha \in LinhasDeEscala
    /\ inicio = 1
    /\ fim = 1
    /\ retorno = None

SpecEscalas == InitEscalas /\ [][NextParsers]_vars

\* the digits of the columns a..b of l read as an integer and scaled by
\* 10^-casas
DigitosNaEscala(l, a, b, casas) ==
    [sinal |-> 0, int |-> StripZeros(DigitsOf(Colunas(l, a, b))), exp |-> 0 - casas]
\* the decoded record holds, in the field c, the digits of the line at `casas`
\* decimal places
NaEscala(registro, c, casas) ==
    DecEq(registro[c.campo], DigitosNaEscala(linha, c.inicio, c.fim, casas))
\* scale 2 for a currency amount, scale 3 for a rate
EscalaDaEspecie(especie) == IF especie = "moeda" THEN 2 ELSE 3
\* the Pix taxa_administrativa, which the Pix decoder converts as it converts
\* an amount
TaxaDoPix(c) == c.tag = <<"8">> /\ c.campo = "taxa_administrativa"
EscalaNoCodigo(c) == IF TaxaDoPix(c) THEN 2 ELSE EscalaDaEspecie(c.especie)

\* C25 as stated: in every record a decoder produces, every currency amount
\* is the digits of its columns at scale 2 and every rate field, the Pix
\* taxa_administrativa included, is the digits of its columns at scale 3.
C25_EscalaPorEspecie ==
    (retorno # None /\ retorno[1].ok) =>
        \A c \in CamposDecimais :
            c.tag = Slice(linha, 0, 1) =>
                NaEscala(retorno[1].val, c, EscalaDaEspecie(c.especie))

\* C25 amended: in every record a decoder produces, every currency amount
\* and the Pix taxa_administrativa are the digits of their columns at scale 2,
\* and taxa_mdr, taxa_recebimento_automatico, taxa_venda, taxa_nominal,
\* taxa_efetiva_negociacao and taxa_efetiva are the digits of their columns
\* at scale 3.
C25_EscalaPorCampo ==
    (retorno # None /\ retorno[1].ok) =>
        \A c \in CamposDecimais :
            c.tag = Slice(linha, 0, 1) => NaEscala(retorno[1].val, c, EscalaNoCodigo(c))

\* a Pix record decoded from a line whose columns 151-155 hold 01234: the
\* stored rate is 12.34, and is not 1.234
C25_Witness ==
    /\ retorno # None /\ retorno[1].ok
    /\ Slice(linha, 0, 1) = <<"8">>
    /\ Colunas(linha, 151, 155) = ZeroPad(1234, 5)
    /\ DecEq(retorno[1].val.taxa_administrativa,
             [sinal |-> 0, int |-> <<1, 2, 3, 4>>, exp |-> -2])
    /\ ~DecEq(retorno[1].val.taxa_administrativa,
              [sinal |-> 0, int |-> <<1, 2, 3, 4>>, exp |-> -3])
\* a sale detail decoded from a line whose columns 232-236 hold 01234: the
\* stored taxa_mdr is 1.234
C25_WitnessTaxa ==
    /\ retorno # None /\ retorno[1].ok
    /\ Slice(linha, 0, 1) = <<"E">>
    /\ Colunas(linha, 232, 236) = ZeroPad(1234, 5)
    /\ DecEq(retorno[1].val.taxa_mdr,
             [sinal |-> 0, int |-> <<1, 2, 3, 4>>, exp |-> -3])

(***************************************************************************)
(* The order of the records, of the entries of linhas_nao_processadas and  *)
(* of the items of the generator.                                          *)
(***************************************************************************)
TagsDeLista == NoveTags \ {<<"0">>, <<"9">>}
\* the line numbers of `linhas`, ascending, of the lines for which Pred holds
NumerosEmOrdem(linhas, Pred(_)) ==
    SelectSeq([i \in 1..Len(linhas) |-> i], LAMBDA i : Pred(linhas[i]))
\* the lines the generator has gone through
Iteradas == IF pc = "stream" THEN Front(arquivo) ELSE arquivo

\* C26: for every body kind, the list of the resultado holds the records of
\* the lines of that kind that decoded, in the order of the lines in the
\* source; the line numbers of linhas_nao_processadas are strictly
\* increasing; and the generator's items are, in the order of the lines, one
\* item per recognized line: the record of the line, or the LinhaErro
\* carrying the number of the line.
C26_OrdemDoArquivo ==
    pc # "excecao" =>
        /\ \A tag \in TagsDeLista :
              LET ns == NumerosEmOrdem(arquivo,
                            LAMBDA l : Tag(l) = tag /\ Decodifica(l))
              IN Guardados(resultado, tag)
                    = [k \in 1..Len(ns) |-> Decodificada(arquivo[ns[k]]).val]
        /\ LET es == resultado.linhas_nao_processadas
           IN \A j, k \in 1..Len(es) : j < k => es[j].linha < es[k].linha
        /\ LET ns == NumerosEmOrdem(Iteradas, Reconhecida)
           IN /\ Len(emitidos) = Len(ns)
              /\ \A k \in 1..Len(ns) :
                    IF Decodifica(arquivo[ns[k]])
                    THEN emitidos[k] = [val |-> Decodificada(arquivo[ns[k]]).val,
                                        erro |-> FALSE]
                    ELSE emitidos[k].erro /\ emitidos[k].val.linha = ns[k]
\* two different D records around a line that is not processed: the list and
\* the items keep the order of the lines
C26_Witness ==
    /\ pc = "fim"
    /\ Len(arquivo) = 3
    /\ Tag(arquivo[1]) = <<"D">> /\ Decodifica(arquivo[1])
    /\ Falha(arquivo[2])
    /\ Tag(arquivo[3]) = <<"D">> /\ Decodifica(arquivo[3])
    /\ Decodificada(arquivo[1]).val # Decodificada(arquivo[3]).val
    /\ resultado.ur_agenda
          = <<Decodificada(arquivo[1]).val, Decodificada(arquivo[3]).val>>
    /\ Len(emitidos) = 3
    /\ emitidos[1].val = resultado.ur_agenda[1]
    /\ emitidos[2].erro
    /\ emitidos[3].val = resultado.ur_agenda[2]
\* two entries of linhas_nao_processadas, for the lines 1 and 3
C26_WitnessNaoProcessadas ==
    /\ pc = "fim"
    /\ Len(resultado.linhas_nao_processadas) = 2
    /\ resultado.linhas_nao_processadas[1].linha = 1
    /\ resultado.linhas_nao_processadas[2].linha = 3
    /\ Decodifica(arquivo[2])

(***************************************************************************)
(* The accounting of the lines of the aggregate parser.                    *)
(***************************************************************************)
\* the nine containers of a resultado: header, the seven lists, trailer
Recipientes(res) == [tag \in NoveTags |-> Guardados(res, tag)]
Quantas(linhas, Pred(_)) == Cardinality({i \in 1..Len(linhas) : Pred(linhas[i])})

C27_WitnessDesconhecida ==
    /\ pc = "fim"
    /\ Len(arquivo) = 3
    /\ Quantas(arquivo, Desconhecida) = 1
    /\ resultado.header # None /\ resultado.trailer # None
    /\ resultado.estatisticas.total_linhas = 3
    /\ Len(resultado.linhas_nao_processadas) = 1

(***************************************************************************)
(* The generator and the aggregate parser on the same lines.               *)
(***************************************************************************)
\* the values of the items of a sequence of yielded items
ValoresDosItens(itens) == [k \in 1..Len(itens) |-> itens[k].val]
ErrosEmitidos == ValoresDosItens(SelectSeq(emitidos, LAMBDA e : e.erro))
RegistrosEmitidos(tag) ==
    ValoresDosItens(SelectSeq(emitidos, LAMBDA e : ~e.erro /\ e.val.tipo_registro = tag))

LinhasDosNoveTipos ==
    {LinhaDoTipo(tag) \o <<LF>> : tag \in PARSERS_keys}
        \cup {LinhaURAgendaQuantidadeInvalida \o <<LF>>, LinhaDesconhecida \o <<LF>>}

NextRecipientes ==
    \/ \E l \in LinhasDosNoveTipos : processar_io_passo(l)
    \/ processar_streaming_io_passo
    \/ fim_arquivo

SpecRecipientes == Init /\ [][NextRecipientes]_vars

\* C29: in the resultado of the aggregate parser, at every point of the
\* parse, the header has tipo_registro '0', the trailer has tipo_registro
\* '9', and every record of ur_agenda, detalhes, pix, negociacoes_resumo,
\* negociacoes_detalhe, contas_recebimento and reserva_financeira has
\* tipo_registro 'D', 'E', '8', 'A', 'B', 'C' and 'R'.
C29_TagDoRecipiente ==
    /\ resultado.header # None => resultado.header[1].tipo_registro = <<"0">>
    /\ resultado.trailer # None => resultado.trailer[1].tipo_registro = <<"9">>
    /\ \A k \in 1..Len(resultado.ur_agenda) :
          resultado.ur_agenda[k].tipo_registro = <<"D">>
    /\ \A k \in 1..Len(resultado.detalhes) :
          resultado.detalhes[k].tipo_registro = <<"E">>
    /\ \A k \in 1..Len(resultado.pix) :
          resultado.pix[k].tipo_registro = <<"8">>
    /\ \A k \in 1..Len(resultado.negociacoes_resumo) :
          resultado.negociacoes_resumo[k].tipo_registro = <<"A">>
    /\ \A k \in 1..Len(resultado.negociacoes_detalhe) :
          resultado.negociacoes_detalhe[k].tipo_registro = <<"B">>
    /\ \A k \in 1..Len(resultado.contas_recebimento) :
          resultado.contas_recebimento[k].tipo_registro = <<"C">>
    /\ \A k \in 1..Len(resultado.reserva_financeira) :
          resultado.reserva_financeira[k].tipo_registro = <<"R">>
\* a header, a reserve record and a trailer stored by one parse
C29_Witness ==
    /\ pc = "fim"
    /\ resultado.header # None
    /\ resultado.trailer # None
    /\ Len(resultado.reserva_financeira) = 1
\* three records of three kinds, each in its own list
C29_WitnessListas ==
    /\ pc = "fim"
    /\ Len(resultado.pix) = 1
    /\ Len(resultado.negociacoes_detalhe) = 1
    /\ Len(resultado.contas_recebimento) = 1

(***************************************************************************)
(* Lines of white space: files of lines of spaces and tabs, blank lines    *)
(* and a record.                                                           *)
(***************************************************************************)
LinhasDeEspacos ==
    {Rep(" ", 3), <<TAB>>, <<" ", TAB, " ">>, <<TAB, " ">>, Rep(" ", 120)}
LinhasComEspacos ==
    {l \o t : l \in LinhasDeEspacos, t \in {<<LF>>, <<CR, LF>>}}
        \cup {<<LF>>, <<CR, LF>>, LinhaURAgendaValida \o <<LF>>, Rep(" ", 3)}

NextEspacos ==
    \/ \E l \in LinhasComEspacos : processar_io_passo(l)
    \/ processar_streaming_io_passo
    \/ fim_arquivo

SpecEspacos == Init /\ [][NextEspacos]_vars

\* the line, without its line ending, is not empty and holds only spaces and
\* tabs
SoEspacosETabs(l) ==
    /\ SemTerminador(l) # <<>>
    /\ \A i \in 1..Len(SemTerminador(l)) : SemTerminador(l)[i] \in {" ", TAB}

\* C30: the aggregate parser's step on a line of spaces and tabs appends one
\* entry to linhas_nao_processadas, with the number of the line, its first
\* character as tipo, a null erro and its first 100 characters as conteudo,
\* counts the line and changes nothing else; the generator's step on such a
\* line yields nothing; and the aggregate parser's step on a line that is
\* empty without its line ending only counts the line.
C30_EspacosNaoSaoLinhaBranca ==
    [][/\ (PassoAgregado /\ SoEspacosETabs(Last(arquivo'))) =>
             /\ pc' = "stream"
             /\ resultado'.linhas_nao_processadas
                   = Append(resultado.linhas_nao_processadas,
                            [linha |-> Len(arquivo'),
                             tipo |-> <<Last(arquivo')[1]>>,
                             erro |-> None,
                             conteudo |-> Primeiros(SemTerminador(Last(arquivo')), 100)])
             /\ [resultado' EXCEPT !.linhas_nao_processadas = <<>>]
                   = [resultado EXCEPT !.linhas_nao_processadas = <<>>,
                                       !.estatisticas.total_linhas = @ + 1]
       /\ (PassoStreaming /\ SoEspacosETabs(Last(arquivo))) =>
             pc' = "agg" /\ emitidos' = emitidos
       /\ (PassoAgregado /\ Branca(Last(arquivo'))) =>
             resultado' = [resultado EXCEPT !.estatisticas.total_linhas = @ + 1]
      ]_vars
\* a line of three spaces, a blank line and a line of a tab and a space: two
\* entries, with a space and a tab as tipo, and nothing yielded
C30_Witness ==
    /\ pc = "fim"
    /\ Len(arquivo) = 3
    /\ SoEspacosETabs(arquivo[1]) /\ Branca(arquivo[2]) /\ SoEspacosETabs(arquivo[3])
    /\ Len(resultado.linhas_nao_processadas) = 2
    /\ resultado.linhas_nao_processadas[1].tipo = <<" ">>
    /\ resultado.linhas_nao_processadas[1].erro = None
    /\ resultado.linhas_nao_processadas[2].tipo = <<TAB>>
    /\ resultado.linhas_nao_processadas[2].linha = 3
    /\ resultado.estatisticas.total_linhas = 3
    /\ emitidos = <<>>

====
